---- MODULE Spec2Model ----
(***************************************************************************)
(* A model of the OAuth 2.0 credential / session lifecycle and the         *)
(* authenticated request pipeline of uber_rides (session.py, auth.py,      *)
(* client.py, request.py, utils/).                                         *)
(*                                                                         *)
(* Python objects live in two append-only heaps (credHeap, sessHeap); a    *)
(* reference is an index into a heap, 0 is the None reference.  Every      *)
(* blocking HTTP round trip splits a call in two actions: the one that     *)
(* sends the request and the one that consumes the response.               *)
(***************************************************************************)
EXTENDS Integers, Sequences, FiniteSets, TLC

VARIABLES
    now,            \* int(time()): the wall clock, in seconds
    ticks,          \* how many times the clock advanced (bounds the model)
    issued,         \* how many tokens the token endpoint has issued
    posts,          \* how many requests were sent, per endpoint
    credHeap,       \* the OAuth2Credential objects
    sessHeap,       \* the Session objects
    clientSession,  \* UberRidesClient.session, per client: a session reference
    pc,             \* per thread: where its current call is blocked
    call,           \* per thread: the locals and the trace of its current call
    calls,          \* per thread: how many calls it has started
    ctor,           \* the last direct Session(...) construction and its result
    flow,           \* the AuthorizationCodeGrant object
    grant,          \* the current get_session call on the flow object
    exc,            \* a failed response and the errors raised from it
    req             \* a Request, what was prepared from it and the URL built

vars == <<now, ticks, issued, posts, credHeap, sessHeap, clientSession, pc, call,
          calls, ctor, flow, grant, exc, req>>

----------------------------------------------------------------------------
(* Bounds of the model.                                                    *)

MaxCalls == 2
MaxTicks == 2
MaxCredentials == 1
MaxSessions == 2
Epoch == 1000
TickSeconds == 2500
MaxUrls == 2

(* Program constants.                                                      *)

EXPIRES_THRESHOLD_SECONDS == 500
STATUS_OK == 200
STATUS_CONFLICT == 409

None == "None"
SERVER_TOKEN_TYPE == "Token"
OAUTH_TOKEN_TYPE == "Bearer"
AUTHORIZATION_CODE_GRANT == "authorization_code"
CLIENT_CREDENTIAL_GRANT == "client_credentials"
IMPLICIT_GRANT == "implicit"
REFRESH_TOKEN == "refresh_token"
CODE_RESPONSE_TYPE == "code"

URL_SCHEME == <<"h", "t", "t", "p", "s", ":", "/", "/">>
ALLOWED_METHODS == {"GET", "POST", "PUT", "DELETE", "PATCH"}
QUERY_METHODS == {"GET", "DELETE"}
BODY_METHODS == {"POST", "PUT", "PATCH"}
VALID_TOKEN_TYPES == {"Token", "Bearer"}

----------------------------------------------------------------------------
(* The values the environment supplies.                                    *)

Clients == {1, 2}
Threads == {1, 2}

\* Seconds the clock may jump between two steps.
TickDeltas == {TickSeconds}

\* expires_in of a token response.
Lifetimes == {0, 3000}

\* The instants at which the initial credential expires: 1 is a credential
\* that expired long ago, the others were built at Epoch.
InitialExpiries == {1, Epoch + 500, Epoch + 3000}

\* The token endpoint issues a distinct access token with every 200 answer.
AccessTokenPool == <<"at1", "at2", "at3", "at4", "at5", "at6", "at7", "at8">>
RefreshTokenPool == <<"rt1", "rt2", "rt3", "rt4", "rt5", "rt6", "rt7", "rt8">>

\* A space-delimited scope string, as the sequence of its words.
ScopeStrings == {<<"profile", "history">>, <<"profile", "profile">>}

\* Grant types a credential may carry ("password" is none of the SDK's).
GrantTypes == {AUTHORIZATION_CODE_GRANT, CLIENT_CREDENTIAL_GRANT,
               IMPLICIT_GRANT, "password"}

\* Tokens holding a character outside letters, digits, '_' and '-'.
MalformedTokens == {"bad token!"}

Methods == {"GET", "POST", "TRACE"}

\* The values _generate_state_token may draw.
StateTokens == {"STATE_A", "STATE_B"}

\* The parameters of one part (query or fragment) of a callback URL: None
\* when the parameter is absent, "" when it is there with a blank value.
CallbackParams ==
    [state : {None, ""} \cup StateTokens,
     code : {None, "", "AUTH_CODE"},
     error : {None, "", "access_denied"}]

NoParams == [state |-> None, code |-> None, error |-> None]

\* The callback URLs a caller may hand to get_session.
CallbackUrls ==
    [query : CallbackParams,
     fragment : {NoParams} \cup
                {[state |-> st, code |-> "FRAGMENT_CODE", error |-> None] :
                     st \in StateTokens}]

\* The parameters of one part of the callback URL of an Implicit Grant.
ImplicitParams ==
    [access_token : {None, "FRAGMENT_TOKEN"},
     expires_in : {None, "3000"},
     scope : {None, "profile history"},
     error : {None, "", "access_denied"},
     refresh_token : {None, "FRAGMENT_REFRESH"}]

NoImplicitParams ==
    [access_token |-> None, expires_in |-> None, scope |-> None,
     error |-> None, refresh_token |-> None]

\* The callback URLs a caller may hand to ImplicitGrant.get_session.
ImplicitCallbackUrls ==
    [query : {NoImplicitParams,
              [access_token |-> "QUERY_TOKEN", expires_in |-> "3000",
               scope |-> "query_scope", error |-> "query_error",
               refresh_token |-> None]},
     fragment : ImplicitParams]

NoImplicitUrl == [query |-> NoImplicitParams, fragment |-> NoImplicitParams]

----------------------------------------------------------------------------
(* Python values.                                                          *)

\* bool(x) of a str-or-None value.
Truthy(x) == x # None /\ x # ""

\* {scope for scope in scopes.split()}
ScopeSet(words) == {words[i] : i \in DOMAIN words}

\* str.split() of a scope string.
Split(s) ==
    CASE s = "profile history" -> <<"profile", "history">>
      [] OTHER -> <<s>>

\* int(s) of the decimal strings of the model.
IntOf(s) ==
    CASE s = "3000" -> 3000
      [] s = "0" -> 0

RECURSIVE Count(_, _)
Count(events, e) ==
    IF events = <<>> THEN 0
    ELSE (IF Head(events) = e THEN 1 ELSE 0) + Count(Tail(events), e)

----------------------------------------------------------------------------
(* session.py                                                              *)

\* OAuth2Credential.__init__ at time t.  The field expires_in_seconds holds
\* the expiry instant, as in the source.
OAuth2Credential(client_id, access_token, expires_in_seconds, scopes, grant_type, redirect_url, client_secret, refresh_token, t) ==
    [client_id |-> client_id,
     access_token |-> access_token,
     expires_in_seconds |-> t + expires_in_seconds,
     scopes |-> scopes,
     grant_type |-> grant_type,
     redirect_url |-> redirect_url,
     client_secret |-> client_secret,
     refresh_token |-> refresh_token]

IsStaleInclusive(credential, t) ==
    credential.expires_in_seconds - t <= EXPIRES_THRESHOLD_SECONDS

\* OAuth2Credential.is_stale at time t.
IsStale(credential, t) ==
    credential.expires_in_seconds - t < EXPIRES_THRESHOLD_SECONDS

SessionAttrs == {"server_token", "oauth2credential", "token_type"}

\* A Session object: has is the set of attributes __init__ assigned.
SessionObject(has, server_token, oauth2credential, token_type) ==
    [has |-> has,
     server_token |-> server_token,
     oauth2credential |-> oauth2credential,
     token_type |-> token_type]

NoSession == SessionObject({}, None, 0, None)

\* Session.__init__(server_token, oauth2credential); oauth2credential is a
\* reference into credHeap, 0 for None (a credential object is truthy).
SessionInit(server_token, oauth2credential) ==
    IF Truthy(server_token) /\ oauth2credential # 0
    THEN [raised |-> TRUE, obj |-> NoSession]
    ELSE IF server_token = None /\ oauth2credential = 0
    THEN [raised |-> TRUE, obj |-> NoSession]
    ELSE IF Truthy(server_token)
    THEN [raised |-> FALSE,
          obj |-> SessionObject(SessionAttrs, server_token, 0,
                                SERVER_TOKEN_TYPE)]
    ELSE IF oauth2credential # 0
    THEN [raised |-> FALSE,
          obj |-> SessionObject(SessionAttrs, None, oauth2credential,
                                OAUTH_TOKEN_TYPE)]
    ELSE [raised |-> FALSE, obj |-> NoSession]

\* OAuth2Credential.make_from_response at time t.
MakeFromResponse(response, grant_type, client_id, client_secret, redirect_url, t) ==
    IF response.status # STATUS_OK
    THEN [raised |-> TRUE,
          cred |-> OAuth2Credential(client_id, None, 0, {}, grant_type,
                                    redirect_url, client_secret, None, t)]
    ELSE [raised |-> FALSE,
          cred |-> OAuth2Credential(client_id, response.access_token,
                                    response.expires_in,
                                    ScopeSet(response.scope), grant_type,
                                    redirect_url, client_secret,
                                    response.refresh_token, t)]

----------------------------------------------------------------------------
(* errors.py                                                               *)

RecognizedShapes == {"errors", "errors_surge", "code_message", "error"}

\* HTTPError._adapt_response: TRUE when the body has one of the three shapes
\* (and the content type is application/json), FALSE when UnknownHttpError
\* is raised instead.
AdaptsResponse(response) ==
    response.json /\ response.shape \in RecognizedShapes

\* What constructing an HTTPError subclass of the given name from the
\* response raises: the error itself, UnknownHttpError from _adapt_response,
\* or the ValueError of response.json() on a body that is not JSON.
RaiseHTTPError(name, response) ==
    IF ~response.json THEN "UnknownHttpError"
    ELSE IF response.shape = "notjson" THEN "ValueError"
    ELSE IF AdaptsResponse(response) THEN name
    ELSE "UnknownHttpError"

----------------------------------------------------------------------------
(* auth.py                                                                 *)

\* The form _request_access_token posts.  scope is the set of scope words,
\* {} when scopes is None; the other fields hold None when not given.
TokenRequest(grant_type, client_id, client_secret, scopes, code, redirect_url, refresh_token) ==
    [grant_type |-> grant_type,
     client_id |-> client_id,
     client_secret |-> client_secret,
     scope |-> scopes,
     code |-> code,
     redirect_uri |-> redirect_url,
     refresh_token |-> refresh_token]

NoTokenRequest == TokenRequest(None, None, None, {}, None, None, None)

\* A response of the token endpoint.
TokenResponse(status, json, shape, access_token, expires_in, scope, refresh_token) ==
    [status |-> status, json |-> json, shape |-> shape,
     access_token |-> access_token, expires_in |-> expires_in,
     scope |-> scope, refresh_token |-> refresh_token]

NoTokenResponse == TokenResponse(0, FALSE, None, None, 0, <<>>, None)

\* The answers of the token and revoke endpoints whose status is not 200: a
\* JSON error body, a body that is not declared application/json, a 201, a
\* 5xx with a code and a message, and a body declared application/json that
\* does not parse.
TokenErrorResponses ==
    {TokenResponse(401, TRUE, "error", None, 0, <<>>, None),
     TokenResponse(401, FALSE, "other", None, 0, <<>>, None),
     TokenResponse(201, TRUE, "other", None, 0, <<>>, None),
     TokenResponse(500, TRUE, "code_message", None, 0, <<>>, None),
     TokenResponse(400, TRUE, "notjson", None, 0, <<>>, None)}

\* The answers the revoke endpoint may give.
RevokeResponses ==
    {TokenResponse(STATUS_OK, TRUE, "other", None, 0, <<>>, None)}
        \cup TokenErrorResponses

\* The answers the token endpoint may give to its n-th successful request.
TokenResponses(n) ==
    {TokenResponse(STATUS_OK, TRUE, "token", AccessTokenPool[n], e,
                   <<"profile", "history">>, RefreshTokenPool[n]) :
        e \in Lifetimes}
    \cup
    {TokenResponse(STATUS_OK, TRUE, "token", AccessTokenPool[n], e,
                   <<"profile", "profile">>, None) :
        e \in Lifetimes}
    \cup TokenErrorResponses

RequestAccessTokenLenient(response) ==
    IF response.status \in {STATUS_OK, 201} THEN "ok"
    ELSE RaiseHTTPError("ClientError", response)

RequestAccessTokenUnchecked(response) == "ok"

\* _request_access_token, after the POST: "ok" when the response is
\* returned, else the error ClientError(response, message) raises.
RequestAccessTokenResult(response) ==
    IF response.status = STATUS_OK THEN "ok"
    ELSE RaiseHTTPError("ClientError", response)

\* The query arguments revoke_access_token posts.
RevokeRequest(credential) ==
    [token |-> credential.access_token,
     client_id |-> credential.client_id,
     client_secret |-> credential.client_secret]

\* revoke_access_token, after the POST: "None" when it returns, else the
\* error ClientError(response, message) raises.
RevokeResult(response) ==
    IF response.status = STATUS_OK THEN "None"
    ELSE RaiseHTTPError("ClientError", response)

\* ClientCredentialGrant.__init__
ClientCredentialGrantInit(client_id, scopes, client_secret) ==
    [client_id |-> client_id, scopes |-> scopes,
     client_secret |-> client_secret]

RefreshableAny(credential) == TRUE

\* refresh_access_token: the grant types that take one of its two branches.
Refreshable(credential) ==
    credential.grant_type \in {AUTHORIZATION_CODE_GRANT,
                               CLIENT_CREDENTIAL_GRANT}

\* refresh_access_token: the token request of the credential's branch.
RefreshRequest(credential) ==
    IF credential.grant_type = AUTHORIZATION_CODE_GRANT
    THEN TokenRequest(REFRESH_TOKEN, credential.client_id,
                      credential.client_secret, {}, None,
                      credential.redirect_url, credential.refresh_token)
    ELSE TokenRequest(CLIENT_CREDENTIAL_GRANT, credential.client_id,
                      credential.client_secret, credential.scopes, None,
                      None, None)

RefreshedCredentialFromRequest(credential, response, t) ==
    MakeFromResponse(response, RefreshRequest(credential).grant_type,
                     credential.client_id, credential.client_secret,
                     RefreshRequest(credential).redirect_uri, t).cred

\* refresh_access_token: the credential its branch builds from the response.
RefreshedCredential(credential, response, t) ==
    IF credential.grant_type = AUTHORIZATION_CODE_GRANT
    THEN MakeFromResponse(response, credential.grant_type,
                          credential.client_id, credential.client_secret,
                          credential.redirect_url, t).cred
    ELSE MakeFromResponse(response, credential.grant_type,
                          credential.client_id, credential.client_secret,
                          None, t).cred

RefreshedInPlace(creds, sessions, old, credential) ==
    [creds |-> [creds EXCEPT ![old] = credential],
     sessions |-> Append(sessions, SessionInit(None, old).obj),
     ref |-> Len(sessions) + 1]

\* refresh_access_token: the objects it creates.  The credential built from
\* the response and the Session wrapping it are new objects; old, the
\* credential passed in, is only read.
RefreshedObjects(creds, sessions, old, credential) ==
    [creds |-> Append(creds, credential),
     sessions |-> Append(sessions,
                         SessionInit(None, Len(creds) + 1).obj),
     ref |-> Len(sessions) + 1]

\* parse_qs and the first value of every key: a parameter with a blank
\* value is dropped (keep_blank_values is off), so it reads as absent.
ParseQs(params) ==
    [k \in DOMAIN params |-> IF params[k] = "" THEN None ELSE params[k]]

ExtractQueryOnly(url, implicit) == ParseQs(url.query)

\* OAuth2._extract_query: the fragment for an ImplicitGrant, the query
\* string for every other grant.
ExtractQuery(url, implicit) ==
    ParseQs(IF implicit THEN url.fragment ELSE url.query)

\* AuthorizationCodeGrant.__init__ with the state token it generated.
AuthorizationCodeGrantInit(client_id, scopes, client_secret, redirect_url, state_token) ==
    [client_id |-> client_id,
     scopes |-> scopes,
     redirect_url |-> redirect_url,
     state_token |-> state_token,
     client_secret |-> client_secret]

\* AuthorizationCodeGrant.get_authorization_url: the query arguments of the
\* URL it returns.
AuthorizationUrl(f) ==
    [redirect_uri |-> f.redirect_url,
     state |-> f.state_token,
     scope |-> f.scopes,
     response_type |-> CODE_RESPONSE_TYPE,
     client_id |-> f.client_id]

VerifyQueryNoCsrf(state_token, query_params) ==
    IF query_params.state = None
    THEN [raised |-> TRUE, code |-> None, message |-> "Missing state"]
    ELSE IF state_token = None
    THEN [raised |-> TRUE, code |-> None, message |-> "Missing CSRF"]
    ELSE IF Truthy(query_params.error) /\ Truthy(query_params.code)
    THEN [raised |-> TRUE, code |-> None, message |-> "Code and Error"]
    ELSE IF query_params.error = None /\ query_params.code = None
    THEN [raised |-> TRUE, code |-> None, message |-> "Neither"]
    ELSE IF Truthy(query_params.error)
    THEN [raised |-> TRUE, code |-> None, message |-> query_params.error]
    ELSE [raised |-> FALSE, code |-> query_params.code, message |-> None]

VerifyQueryErrorFirst(state_token, query_params) ==
    IF Truthy(query_params.error) /\ Truthy(query_params.code)
    THEN [raised |-> TRUE, code |-> None, message |-> "Code and Error"]
    ELSE IF query_params.error = None /\ query_params.code = None
    THEN [raised |-> TRUE, code |-> None, message |-> "Neither"]
    ELSE IF Truthy(query_params.error)
    THEN [raised |-> TRUE, code |-> None, message |-> query_params.error]
    ELSE IF query_params.state = None
    THEN [raised |-> TRUE, code |-> None, message |-> "Missing state"]
    ELSE IF state_token = None
    THEN [raised |-> TRUE, code |-> None, message |-> "Missing CSRF"]
    ELSE IF state_token # query_params.state
    THEN [raised |-> TRUE, code |-> None, message |-> "CSRF Error"]
    ELSE [raised |-> FALSE, code |-> query_params.code, message |-> None]

\* AuthorizationCodeGrant._verify_query: raised when it raises
\* UberIllegalState, with the message of the error, else the authorization
\* code it returns.
VerifyQuery(state_token, query_params) ==
    IF query_params.state = None
    THEN [raised |-> TRUE, code |-> None, message |-> "Missing state"]
    ELSE IF state_token = None
    THEN [raised |-> TRUE, code |-> None, message |-> "Missing CSRF"]
    ELSE IF state_token # query_params.state
    THEN [raised |-> TRUE, code |-> None, message |-> "CSRF Error"]
    ELSE IF Truthy(query_params.error) /\ Truthy(query_params.code)
    THEN [raised |-> TRUE, code |-> None, message |-> "Code and Error"]
    ELSE IF query_params.error = None /\ query_params.code = None
    THEN [raised |-> TRUE, code |-> None, message |-> "Neither"]
    ELSE IF Truthy(query_params.error)
    THEN [raised |-> TRUE, code |-> None, message |-> query_params.error]
    ELSE [raised |-> FALSE, code |-> query_params.code, message |-> None]

\* ImplicitGrant.__init__
ImplicitGrantInit(client_id, scopes, redirect_url) ==
    [client_id |-> client_id, scopes |-> scopes,
     redirect_url |-> redirect_url]

\* ImplicitGrant.get_session: what it raises, "Session" when it returns.
\* scopes.split() fails on a missing scope, int() on a missing expires_in.
ImplicitGetSessionResult(query_params) ==
    IF Truthy(query_params.error) THEN "UberIllegalState"
    ELSE IF query_params.scope = None THEN "AttributeError"
    ELSE IF query_params.expires_in = None THEN "TypeError"
    ELSE "Session"

ImplicitCredentialWithRefresh(f, query_params, t) ==
    OAuth2Credential(f.client_id, query_params.access_token,
                     IntOf(query_params.expires_in),
                     ScopeSet(Split(query_params.scope)), IMPLICIT_GRANT,
                     f.redirect_url, None, query_params.refresh_token, t)

\* ImplicitGrant.get_session: the credential it builds at time t.
ImplicitCredential(f, query_params, t) ==
    OAuth2Credential(f.client_id, query_params.access_token,
                     IntOf(query_params.expires_in),
                     ScopeSet(Split(query_params.scope)), IMPLICIT_GRANT,
                     f.redirect_url, None, None, t)

----------------------------------------------------------------------------
(* request.py, utils/handlers.py and the handlers of client.py             *)

AuthorizationHeadersValidAnyType(token_type, token) ==
    token \notin MalformedTokens

\* Request._authorization_headers_valid
AuthorizationHeadersValid(token_type, token) ==
    token_type \in VALID_TOKEN_TYPES /\ token \notin MalformedTokens

\* Request._build_headers: the token the Authorization header is built from.
HeaderToken(session, creds) ==
    IF Truthy(session.server_token) THEN session.server_token
    ELSE creds[session.oauth2credential].access_token

\* Request._prepare: "ok" when a request is prepared, else the error raised.
PrepareResult(method, session, creds) ==
    IF method \notin ALLOWED_METHODS THEN "UberIllegalState"
    ELSE IF ~AuthorizationHeadersValid(session.token_type,
                                       HeaderToken(session, creds))
    THEN "UberIllegalState"
    ELSE "ok"

\* A response of the resource API: its status, whether its content type is
\* application/json, the shape of its body, whether the body carries
\* meta.surge_confirmation, and whether the rate-limit headers are present.
\* The rate-limit headers are read only from a response that passed the
\* hooks, and a response of another content type is taken with every body
\* only where a hook reads the body first (409).
ApiResponses ==
    {r \in [status : {STATUS_OK, 401, STATUS_CONFLICT, 500},
            json : BOOLEAN,
            shape : {"errors", "errors_surge", "code_message", "error",
                     "other", "notjson"},
            meta : BOOLEAN,
            rate : BOOLEAN] :
        /\ r.meta => r.shape = "errors_surge"
        /\ r.status = STATUS_OK => r.shape \in {"other", "notjson"}
        /\ ~r.rate => r.status = STATUS_OK
        /\ ~r.json => r.status \in {STATUS_OK, STATUS_CONFLICT}
                          \/ r.shape = "other"}

\* surge_handler: "pass" when it returns the response, else what it raises.
SurgeHandler(response) ==
    IF response.status # STATUS_CONFLICT THEN "pass"
    ELSE IF response.shape = "notjson" THEN "ValueError"
    ELSE IF response.shape = "error" THEN "AttributeError"
    ELSE IF response.shape # "errors_surge" THEN "pass"
    ELSE IF RaiseHTTPError("SurgeError", response) # "SurgeError"
    THEN RaiseHTTPError("SurgeError", response)
    ELSE IF ~response.meta THEN "AttributeError"
    ELSE "SurgeError"

\* error_handler: "pass" when it returns the response, else what it raises.
ErrorHandler(response) ==
    IF 400 <= response.status /\ response.status <= 499
    THEN RaiseHTTPError("ClientError", response)
    ELSE IF 500 <= response.status /\ response.status <= 599
    THEN RaiseHTTPError("ServerError", response)
    ELSE "pass"

\* _api_call: handlers = [surge_handler], a new list in every call.
ApiCallHandlers == <<"surge_handler">>

GeneratePreparedRequestPrepending(handlers) ==
    <<"error_handler">> \o handlers

\* generate_prepared_request: handlers.append(error_handler); the hooks
\* registered on the request are the handlers of the list, in its order.
GeneratePreparedRequest(handlers) == Append(handlers, "error_handler")

\* The call of one registered hook.
CallHandler(handler, response) ==
    IF handler = "surge_handler" THEN SurgeHandler(response)
    ELSE ErrorHandler(response)

\* Session.send dispatches the response hooks in the order of their
\* registration; a hook that raises ends the dispatch.  ran is the
\* sequence of the hooks that were called.
RECURSIVE RunHooks(_, _)
RunHooks(handlers, response) ==
    IF handlers = <<>> THEN [result |-> "pass", ran |-> <<>>]
    ELSE IF CallHandler(Head(handlers), response) # "pass"
    THEN [result |-> CallHandler(Head(handlers), response),
          ran |-> <<Head(handlers)>>]
    ELSE [result |-> RunHooks(Tail(handlers), response).result,
          ran |-> <<Head(handlers)>>
                      \o RunHooks(Tail(handlers), response).ran]

\* Request._send: the hooks run inside Session.send, then the response is
\* wrapped in a Response.
SendResult(handlers, response) ==
    IF RunHooks(handlers, response).result # "pass"
    THEN RunHooks(handlers, response).result
    ELSE IF ~response.rate THEN "KeyError"
    ELSE "Response"

AfterSendRetrying(result) ==
    IF result = "ServerError" THEN "build" ELSE "idle"

\* Request.execute: where the call goes once _send has returned or raised.
\* The request is sent once and the result goes to the caller: the call is
\* over.
AfterSend(result) == "idle"

----------------------------------------------------------------------------
(* errors.py and the handlers, on the body of the response                 *)

\* ErrorDetails.__init__
ErrorDetails(status, code, title) ==
    [status |-> status, code |-> code, title |-> title]

NoErrorDetails == ErrorDetails(0, None, None)

\* The value of the "meta" key of a body: absent, a mapping without
\* surge_confirmation, a mapping with it.
NoMeta ==
    [present |-> FALSE, surge |-> FALSE, href |-> None,
     surge_confirmation_id |-> None]

MetaPlain == [NoMeta EXCEPT !.present = TRUE]

MetaSurge ==
    [present |-> TRUE, surge |-> TRUE, href |-> "SURGE_HREF",
     surge_confirmation_id |-> "SURGE_ID"]

\* The value of the "error" key of a body: absent, a string, or a mapping
\* (text is then its code).
NoError == [type |-> "none", text |-> None]

\* The JSON bodies of the model, by the keys the SDK reads.  An absent
\* "errors" and an empty list read alike everywhere, so <<>> is both.
Bodies ==
    [errors : {<<>>,
               <<ErrorDetails(422, "validation_failed", "Invalid")>>,
               <<ErrorDetails(409, "surge", "Surge pricing")>>,
               <<ErrorDetails(422, "validation_failed", "Invalid"),
                 ErrorDetails(409, "surge", "Surge pricing")>>,
               <<ErrorDetails(409, "surge", "Surge pricing"),
                 ErrorDetails(422, "validation_failed", "Invalid")>>},
     code : {None, "unauthorized", "surge"},
     message : {None, "Invalid OAuth 2.0 credentials provided."},
     error : {NoError, [type |-> "str", text |-> "invalid_request"],
              [type |-> "dict", text |-> "surge"]},
     meta : {NoMeta, MetaPlain, MetaSurge}]

EmptyBody ==
    [errors |-> <<>>, code |-> None, message |-> None, error |-> NoError,
     meta |-> NoMeta]

\* response.reason
Reason(status) ==
    CASE status = 400 -> "Bad Request"
      [] status = 409 -> "Conflict"
      [] status = 500 -> "Internal Server Error"
      [] OTHER -> "Unknown"

\* The responses of the model: the status, the content-type header,
\* whether the body is JSON at all, and the body when it is.
HttpResponses ==
    {r \in [status : {200, 399, 400, 409, 499, 500, 599, 600},
            content_type : {"application/json", "text/html",
                            "application/json; charset=utf-8"},
            parses : BOOLEAN,
            body : Bodies] :
        ~r.parses => r.body = EmptyBody}

NoHttpResponse ==
    [status |-> 0, content_type |-> None, parses |-> FALSE,
     body |-> EmptyBody]

\* The meta of an error: the value of the "meta" key (of "meta"), or what
\* is left of the body once the keys that were read are popped (of "rest").
MetaOf(of, rest) == [of |-> of, rest |-> rest]

NoMetaOf == MetaOf("none", EmptyBody)

\* What handling a response gives: raised is the class of the error
\* raised, "none" when the response is returned; the other fields are the
\* attributes of the error.
Raised(raised, errors, error, meta, href, id, response) ==
    [raised |-> raised, errors |-> errors, error |-> error, meta |-> meta,
     surge_confirmation_href |-> href, surge_confirmation_id |-> id,
     response |-> response]

Unset ==
    Raised("unset", <<>>, NoErrorDetails, NoMetaOf, None, None,
           NoHttpResponse)

Returned ==
    Raised("none", <<>>, NoErrorDetails, NoMetaOf, None, None,
           NoHttpResponse)

\* An exception that is not an HTTPError: it has none of the attributes.
Exception(name) ==
    Raised(name, <<>>, NoErrorDetails, NoMetaOf, None, None,
           NoHttpResponse)

\* UnknownHttpError.__init__
UnknownHttpError(response) ==
    Raised("UnknownHttpError", <<>>, NoErrorDetails, NoMetaOf, None, None,
           response)

\* An (errors, meta) pair returned by an adapter.
Adapted(errors, meta) ==
    Raised("none", errors, NoErrorDetails, meta, None, None, NoHttpResponse)

\* HTTPError._complex_response_to_error_adapter
ComplexResponseToErrorAdapter(body) ==
    Adapted([i \in DOMAIN body.errors |->
                ErrorDetails(body.errors[i].status, body.errors[i].code,
                             body.errors[i].title)],
            MetaOf("meta", [EmptyBody EXCEPT !.meta = body.meta]))

SimpleResponseToErrorAdapterKeeping(status, original_body) ==
    Adapted(<<ErrorDetails(status, original_body.code,
                           original_body.message)>>,
            MetaOf("rest", original_body))

\* HTTPError._simple_response_to_error_adapter
SimpleResponseToErrorAdapter(status, original_body) ==
    Adapted(<<ErrorDetails(status, original_body.code,
                           original_body.message)>>,
            MetaOf("rest", [original_body EXCEPT !.code = None,
                                                 !.message = None]))

\* HTTPError._message_to_error_adapter
MessageToErrorAdapter(status, code, original_body) ==
    Adapted(<<ErrorDetails(status, code, original_body.error.text)>>,
            MetaOf("rest", [original_body EXCEPT !.error = NoError]))

\* What an adapter leaves of the body it was given: the simple and the
\* message adapter pop the keys from body = original_body.copy().
OriginalBody(response) == response.body

HTTPErrorAdaptResponseSimpleFirst(response) ==
    IF response.content_type # "application/json"
    THEN UnknownHttpError(response)
    ELSE IF ~response.parses THEN Exception("ValueError")
    ELSE IF Truthy(response.body.code) /\ Truthy(response.body.message)
    THEN SimpleResponseToErrorAdapter(response.status, response.body)
    ELSE IF response.body.errors # <<>>
    THEN ComplexResponseToErrorAdapter(response.body)
    ELSE IF response.body.error.type # "none"
    THEN MessageToErrorAdapter(response.status, Reason(response.status),
                               response.body)
    ELSE UnknownHttpError(response)

\* HTTPError._adapt_response: raised is "none" when it returns
\* (errors, meta).
HTTPErrorAdaptResponse(response) ==
    IF response.content_type # "application/json"
    THEN UnknownHttpError(response)
    ELSE IF ~response.parses THEN Exception("ValueError")
    ELSE IF response.body.errors # <<>>
    THEN ComplexResponseToErrorAdapter(response.body)
    ELSE IF Truthy(response.body.code) /\ Truthy(response.body.message)
    THEN SimpleResponseToErrorAdapter(response.status, response.body)
    ELSE IF response.body.error.type # "none"
    THEN MessageToErrorAdapter(response.status, Reason(response.status),
                               response.body)
    ELSE UnknownHttpError(response)

\* ClientError.__init__
ClientErrorInit(response) ==
    IF HTTPErrorAdaptResponse(response).raised # "none"
    THEN HTTPErrorAdaptResponse(response)
    ELSE [HTTPErrorAdaptResponse(response) EXCEPT !.raised = "ClientError"]

ServerErrorAdaptLast(response) ==
    IF HTTPErrorAdaptResponse(response).raised # "none"
    THEN HTTPErrorAdaptResponse(response)
    ELSE [HTTPErrorAdaptResponse(response) EXCEPT
             !.errors = <<>>,
             !.error = HTTPErrorAdaptResponse(response).errors[
                           Len(HTTPErrorAdaptResponse(response).errors)]]

\* ServerError._adapt_response: errors[0] instead of the list.
ServerErrorAdaptResponse(response) ==
    IF HTTPErrorAdaptResponse(response).raised # "none"
    THEN HTTPErrorAdaptResponse(response)
    ELSE [HTTPErrorAdaptResponse(response) EXCEPT
             !.errors = <<>>,
             !.error = HTTPErrorAdaptResponse(response).errors[1]]

\* ServerError.__init__
ServerErrorInit(response) ==
    IF ServerErrorAdaptResponse(response).raised # "none"
    THEN ServerErrorAdaptResponse(response)
    ELSE [ServerErrorAdaptResponse(response) EXCEPT
             !.raised = "ServerError"]

\* SurgeError.__init__ and adapt_meta: meta.get fails on a meta that is
\* None, surge.get on a meta without surge_confirmation.
SurgeErrorInit(response) ==
    IF ClientErrorInit(response).raised # "ClientError"
    THEN ClientErrorInit(response)
    ELSE IF ClientErrorInit(response).meta.of # "meta"
    THEN Exception("AttributeError")
    ELSE IF ~ClientErrorInit(response).meta.rest.meta.present
    THEN Exception("AttributeError")
    ELSE IF ~ClientErrorInit(response).meta.rest.meta.surge
    THEN Exception("AttributeError")
    ELSE [ClientErrorInit(response) EXCEPT
             !.raised = "SurgeError",
             !.surge_confirmation_href =
                 ClientErrorInit(response).meta.rest.meta.href,
             !.surge_confirmation_id =
                 ClientErrorInit(response).meta.rest.meta
                     .surge_confirmation_id]

\* surge_handler
surge_handler(response) ==
    IF response.status # STATUS_CONFLICT THEN Returned
    ELSE IF ~response.parses THEN Exception("ValueError")
    ELSE IF response.body.errors # <<>>
    THEN IF response.body.errors[1].code = "surge"
         THEN SurgeErrorInit(response)
         ELSE Returned
    ELSE IF response.body.error.type = "none" THEN Returned
    ELSE IF response.body.error.type = "str"
    THEN Exception("AttributeError")
    ELSE IF response.body.error.text = "surge"
    THEN SurgeErrorInit(response)
    ELSE Returned

ErrorHandlerBelow499(response) ==
    IF 400 <= response.status /\ response.status < 499
    THEN ClientErrorInit(response)
    ELSE IF 500 <= response.status /\ response.status < 599
    THEN ServerErrorInit(response)
    ELSE Returned

\* error_handler
error_handler(response) ==
    IF 400 <= response.status /\ response.status <= 499
    THEN ClientErrorInit(response)
    ELSE IF 500 <= response.status /\ response.status <= 599
    THEN ServerErrorInit(response)
    ELSE Returned

\* The hooks of a request of the client, run in order on the response.
HookedResponse(response) ==
    IF surge_handler(response).raised # "none"
    THEN surge_handler(response)
    ELSE error_handler(response)

\* A response under classification, and what came of handing it to the
\* hooks of a request, to error_handler alone, to ClientError(response) and
\* to ServerError(response).
NoExc ==
    [response |-> NoHttpResponse, hooks |-> Unset, generic |-> Unset,
     client |-> Unset, server |-> Unset]

----------------------------------------------------------------------------
(* utils/request.py and Request._prepare.  A string that is built or       *)
(* encoded is the sequence of its characters.                              *)

\* str.startswith
StartsWith(s, prefix) ==
    Len(s) >= Len(prefix) /\ SubSeq(s, 1, Len(prefix)) = prefix

\* The characters urllib.quote never encodes, of those the model uses.
AlwaysSafe == {"a", "b", "c", "m", "e", "q", "v", "x", "y", "1", ".", "-", "_"}

\* '%' and the two hexadecimal digits of a character.
PercentEncoded(c) ==
    CASE c = "~" -> <<"%", "7", "E">>
      [] c = " " -> <<"%", "2", "0">>
      [] c = "?" -> <<"%", "3", "F">>
      [] c = "/" -> <<"%", "2", "F">>
      [] c = "&" -> <<"%", "2", "6">>
      [] c = "=" -> <<"%", "3", "D">>
      [] c = "\"" -> <<"%", "2", "2">>

RECURSIVE QuoteKeepingTilde(_, _)
QuoteKeepingTilde(s, safe) ==
    IF s = <<>> THEN <<>>
    ELSE (IF Head(s) \in AlwaysSafe \cup safe \cup {"~"} THEN <<Head(s)>>
          ELSE PercentEncoded(Head(s)))
             \o QuoteKeepingTilde(Tail(s), safe)

\* urllib.quote(s, safe)
RECURSIVE Quote(_, _)
Quote(s, safe) ==
    IF s = <<>> THEN <<>>
    ELSE (IF Head(s) \in AlwaysSafe \cup safe THEN <<Head(s)>>
          ELSE PercentEncoded(Head(s)))
             \o Quote(Tail(s), safe)

\* urllib.quote_plus(s): a space becomes '+', nothing else is safe.
QuotePlus(s) ==
    [i \in DOMAIN Quote(s, {" "}) |->
        IF Quote(s, {" "})[i] = " " THEN "+" ELSE Quote(s, {" "})[i]]

\* A dict of strings, in the order of its iteration, or None.
Dict(items) == [none |-> FALSE, items |-> items]

NoneDict == [none |-> TRUE, items |-> <<>>]

\* urllib.urlencode(params)
RECURSIVE UrlEncode(_)
UrlEncode(items) ==
    IF items = <<>> THEN <<>>
    ELSE QuotePlus(Head(items).k) \o <<"=">> \o QuotePlus(Head(items).v)
             \o (IF Tail(items) = <<>> THEN <<>> ELSE <<"&">>)
             \o UrlEncode(Tail(items))

\* The JSON text of a string: quotes around it, a quote in it escaped.
RECURSIVE JsonEscaped(_)
JsonEscaped(s) ==
    IF s = <<>> THEN <<>>
    ELSE (IF Head(s) = "\"" THEN <<"\\", "\"">> ELSE <<Head(s)>>)
             \o JsonEscaped(Tail(s))

RECURSIVE JsonItems(_)
JsonItems(items) ==
    IF items = <<>> THEN <<>>
    ELSE <<"\"">> \o JsonEscaped(Head(items).k) \o <<"\"", ":", " ", "\"">>
             \o JsonEscaped(Head(items).v) \o <<"\"">>
             \o (IF Tail(items) = <<>> THEN <<>> ELSE <<",", " ">>)
             \o JsonItems(Tail(items))

\* json.dumps(args)
Dumps(args) ==
    IF args.none THEN <<"n", "u", "l", "l">>
    ELSE <<"{">> \o JsonItems(args.items) \o <<"}">>

\* The data of a request: a JSON text or a dict.
Data(type, text, dict) == [type |-> type, text |-> text, dict |-> dict]

GenerateDataNoPatch(method, args) ==
    IF method \in BODY_METHODS \ {"PATCH"}
    THEN [data |-> Data("str", Dumps(args), Dict(<<>>)),
          params |-> Dict(<<>>)]
    ELSE [data |-> Data("dict", <<>>, Dict(<<>>)), params |-> args]

\* generate_data
GenerateData(method, args) ==
    IF method \in BODY_METHODS
    THEN [data |-> Data("str", Dumps(args), Dict(<<>>)),
          params |-> Dict(<<>>)]
    ELSE [data |-> Data("dict", <<>>, Dict(<<>>)), params |-> args]

\* urlparse.urljoin(base, url) for a base of a scheme and a host and a url
\* that begins with '/': a url that begins with '//' names its own host.
UrlJoin(base, url) ==
    IF StartsWith(url, <<"/", "/">>)
    THEN <<"h", "t", "t", "p", "s", ":">> \o url
    ELSE base \o url

\* build_url
BuildUrl(host, path, params) ==
    UrlJoin(IF ~StartsWith(host, URL_SCHEME) THEN URL_SCHEME \o host
            ELSE host,
            IF ~params.none /\ params.items # <<>>
            THEN <<"/">> \o Quote(path, {"/"}) \o <<"?">>
                     \o UrlEncode(params.items)
            ELSE <<"/">> \o Quote(path, {"/"}))

\* What Request._prepare gives: raised is the error raised, "none" when the
\* PreparedRequest is returned, "unset" when it was not called.
Prepared(raised, authorization, content_type, url, generated, hooks) ==
    [raised |-> raised, authorization |-> authorization,
     content_type |-> content_type, url |-> url, data |-> generated.data,
     params |-> generated.params, hooks |-> hooks]

NotPrepared(raised) ==
    Prepared(raised, <<>>, None, <<>>,
             [data |-> Data("dict", <<>>, Dict(<<>>)),
              params |-> Dict(<<>>)], <<>>)

\* Request._prepare and Request._build_headers
RequestPrepare(session, creds, api_host, method, path, handlers, args) ==
    IF PrepareResult(method, session, creds) # "ok"
    THEN NotPrepared(PrepareResult(method, session, creds))
    ELSE Prepared("none",
                  <<session.token_type, HeaderToken(session, creds)>>,
                  IF method \in BODY_METHODS THEN "application/json"
                  ELSE None,
                  BuildUrl(api_host, path, NoneDict),
                  GenerateData(method, args),
                  GeneratePreparedRequest(handlers))

\* A Request of the application, what _prepare made of it and whether it
\* was sent; and a direct call of build_url and one of generate_data with
\* their results.
NoReq ==
    [method |-> None, api_host |-> <<>>, path |-> <<>>, args |-> NoneDict,
     params |-> NoneDict, prepared |-> NotPrepared("unset"), sent |-> FALSE,
     url |-> <<>>,
     generated |-> [done |-> FALSE, data |-> Data("dict", <<>>, Dict(<<>>)),
                    params |-> Dict(<<>>)]]

----------------------------------------------------------------------------
(* client.py: UberRidesClient                                              *)

NeedsRefreshAlways(session, creds, t) ==
    session.token_type # SERVER_TOKEN_TYPE

RebindDropped(sessionOf, c, ref) == sessionOf

RebindOnce(sessionOf, c, ref) ==
    IF sessionOf[c] = 1 THEN [sessionOf EXCEPT ![c] = ref] ELSE sessionOf

\* refresh_oauth_credential: self.session = refresh_session
Rebind(sessionOf, c, ref) == [sessionOf EXCEPT ![c] = ref]

\* refresh_oauth_credential: whether it calls refresh_access_token.
NeedsRefresh(session, creds, t) ==
    /\ session.token_type # SERVER_TOKEN_TYPE
    /\ IsStale(creds[session.oauth2credential], t)

\* The locals and the trace of one call of a thread.
\*   kind      "api" for UberRidesClient._api_call, "refresh" for a direct
\*             refresh_access_token, "none" before the first call
\*   sess0     client.session when the call started
\*   cred      the credential refresh_oauth_credential read (0: none)
\*   gate      "skip" (server token), "fresh", "stale"
\*   gateNow   the clock when is_stale was evaluated
\*   log       the requests sent and the request built, in order
\*   tokenNow  the clock when the token response was turned into a credential
\*   newSess   the session the refresh returned (0: none)
\*   sessUsed  the session the request was built from (0: not built)
\*   authorization  the Authorization header, <<token_type, token>>
\*   handlers  the response hooks registered on the request, in order
\*   ran       the response hooks that were called, in order
\*   outcome   "pending", "Response", or the name of the error raised
\*   errArg    what the message of the UberIllegalState raised names
NoCall ==
    [kind |-> "none", client |-> 0, method |-> None, sess0 |-> 0,
     cred |-> 0, gate |-> "none", gateNow |-> 0, log |-> <<>>,
     tokenReq |-> NoTokenRequest, tokenResp |-> NoTokenResponse,
     tokenNow |-> 0, newSess |-> 0, sessUsed |-> 0, authorization |-> <<>>,
     contentType |-> None, handlers |-> <<>>, ran |-> <<>>,
     outcome |-> "none", errArg |-> None]

\* UberRidesClient._api_call up to the first blocking request: the freshness
\* gate refresh_oauth_credential, and refresh_access_token up to its POST.
ApiCall(t, c, m) ==
    /\ pc[t] = "idle"
    /\ clientSession[c] \in DOMAIN sessHeap
    /\ calls[t] < MaxCalls
    /\ calls' = [calls EXCEPT ![t] = @ + 1]
    /\ LET session == sessHeap[clientSession[c]]
           oauth == session.token_type # SERVER_TOKEN_TYPE
           credential == credHeap[session.oauth2credential]
           started == [NoCall EXCEPT
                          !.kind = "api", !.client = c, !.method = m,
                          !.sess0 = clientSession[c],
                          !.cred = session.oauth2credential,
                          !.outcome = "pending"]
       IN  IF ~oauth
           THEN /\ call' = [call EXCEPT ![t] =
                               [started EXCEPT !.gate = "skip"]]
                /\ pc' = [pc EXCEPT ![t] = "build"]
                /\ posts' = posts
           ELSE IF ~NeedsRefresh(session, credHeap, now)
           THEN /\ call' = [call EXCEPT ![t] =
                               [started EXCEPT !.gate = "fresh",
                                               !.gateNow = now]]
                /\ pc' = [pc EXCEPT ![t] = "build"]
                /\ posts' = posts
           ELSE IF Refreshable(credential)
           THEN /\ call' = [call EXCEPT ![t] =
                               [started EXCEPT
                                   !.gate = "stale", !.gateNow = now,
                                   !.tokenReq = RefreshRequest(credential),
                                   !.log = <<"token_request">>]]
                /\ pc' = [pc EXCEPT ![t] = "token_wait"]
                /\ posts' = [posts EXCEPT !.token = @ + 1]
           ELSE /\ call' = [call EXCEPT ![t] =
                               [started EXCEPT
                                   !.gate = "stale", !.gateNow = now,
                                   !.outcome = "UberIllegalState",
                                   !.errArg = credential.grant_type]]
                /\ pc' = [pc EXCEPT ![t] = "idle"]
                /\ posts' = posts
    /\ UNCHANGED <<now, ticks, issued, credHeap, sessHeap, clientSession,
                   ctor, flow, grant, exc, req>>

\* The token endpoint answers the refresh of an API call: the rest of
\* _request_access_token and refresh_access_token, and the rebind
\* self.session = refresh_session of refresh_oauth_credential.
ReceiveToken(t, r) ==
    /\ pc[t] = "token_wait"
    /\ call[t].kind = "api"
    /\ r \in TokenResponses(issued + 1)
    /\ IF RequestAccessTokenResult(r) = "ok"
       THEN LET objs == RefreshedObjects(
                            credHeap, sessHeap, call[t].cred,
                            RefreshedCredential(credHeap[call[t].cred],
                                                r, now))
            IN  /\ credHeap' = objs.creds
                /\ sessHeap' = objs.sessions
                /\ clientSession' =
                       Rebind(clientSession, call[t].client, objs.ref)
                /\ issued' = issued + 1
                /\ call' = [call EXCEPT ![t].tokenResp = r,
                                        ![t].tokenNow = now,
                                        ![t].newSess = objs.ref,
                                        ![t].log = Append(@, "rebind")]
                /\ pc' = [pc EXCEPT ![t] = "build"]
       ELSE /\ call' = [call EXCEPT
                           ![t].tokenResp = r,
                           ![t].outcome = RequestAccessTokenResult(r)]
            /\ pc' = [pc EXCEPT ![t] = "idle"]
            /\ UNCHANGED <<credHeap, sessHeap, clientSession, issued>>
    /\ UNCHANGED <<now, ticks, posts, calls, ctor, flow, grant, exc, req>>

\* _api_call after the gate: Request(auth_session=self.session, ...) and
\* Request.execute up to the request being sent.
Dispatch(t) ==
    /\ pc[t] = "build"
    /\ LET c == call[t].client
           session == sessHeap[clientSession[c]]
           result == PrepareResult(call[t].method, session, credHeap)
       IN  IF result = "ok"
           THEN /\ call' = [call EXCEPT
                               ![t].sessUsed = clientSession[c],
                               ![t].authorization =
                                   <<session.token_type,
                                     HeaderToken(session, credHeap)>>,
                               ![t].contentType =
                                   IF call[t].method \in BODY_METHODS
                                   THEN "application/json" ELSE None,
                               ![t].handlers =
                                   GeneratePreparedRequest(ApiCallHandlers),
                               ![t].log =
                                   @ \o <<"build", "api_request">>]
                /\ pc' = [pc EXCEPT ![t] = "api_wait"]
                /\ posts' = [posts EXCEPT !.api = @ + 1]
           ELSE /\ call' = [call EXCEPT
                               ![t].sessUsed = clientSession[c],
                               ![t].log = Append(@, "build"),
                               ![t].outcome = result]
                /\ pc' = [pc EXCEPT ![t] = "idle"]
                /\ posts' = posts
    /\ UNCHANGED <<now, ticks, issued, credHeap, sessHeap, clientSession,
                   calls, ctor, flow, grant, exc, req>>

\* The resource API answers: the hooks run, the Response is built, and
\* _api_call returns or raises.
ReceiveResponse(t, r) ==
    /\ pc[t] = "api_wait"
    /\ r \in ApiResponses
    /\ call' = [call EXCEPT
                    ![t].ran = RunHooks(call[t].handlers, r).ran,
                    ![t].outcome = SendResult(call[t].handlers, r)]
    /\ pc' = [pc EXCEPT ![t] = AfterSend(SendResult(call[t].handlers, r))]
    /\ UNCHANGED <<now, ticks, issued, posts, credHeap, sessHeap,
                   clientSession, calls, ctor, flow, grant, exc, req>>

\* Time passes.
Tick(d) ==
    /\ ticks < MaxTicks
    /\ d \in TickDeltas
    /\ now' = now + d
    /\ ticks' = ticks + 1
    /\ UNCHANGED <<issued, posts, credHeap, sessHeap, clientSession, pc,
                   call, calls, ctor, flow, grant, exc, req>>

----------------------------------------------------------------------------
(* The client specification: one thread makes API calls on two clients     *)
(* that were built from the same Session.                                  *)

\* The credential the initial OAuth session holds.
InitialCredential(g, x) ==
    [client_id |-> "CLIENT_ID",
     access_token |-> "at0",
     expires_in_seconds |-> x,
     scopes |-> {"profile", "history"},
     grant_type |-> g,
     redirect_url |-> IF g = CLIENT_CREDENTIAL_GRANT THEN None
                      ELSE "REDIRECT_URL",
     client_secret |-> IF g = IMPLICIT_GRANT THEN None
                       ELSE "CLIENT_SECRET",
     refresh_token |-> IF g = AUTHORIZATION_CODE_GRANT THEN "rt0"
                       ELSE None]

NoCtor ==
    [done |-> FALSE, server_token |-> None, oauth2credential |-> 0,
     raised |-> FALSE, obj |-> NoSession]

NoFlow == AuthorizationCodeGrantInit(None, {}, None, None, None)

\* The ImplicitGrant object of the application: it never changes once built.
ImplicitFlow ==
    ImplicitGrantInit("CLIENT_ID", {"profile", "history"}, "REDIRECT_URL")

\* The history of the flow objects: the callback URL of the last get_session
\* when it was one of the Authorization Code flow, the callback URL of the
\* last get_session when it was one of the Implicit flow,
\* the arguments of the last authorization URL handed out, the state values
\* of all the authorization URLs handed out, in order, and the state values
\* of the callbacks for which get_session returned a Session, in order.
NoGrant ==
    [callback |-> [query |-> NoParams, fragment |-> NoParams],
     implicit |-> NoImplicitUrl,
     url |-> AuthorizationUrl(NoFlow),
     urls |-> <<>>,
     accepted |-> <<>>]

InitCommon ==
    /\ now = Epoch
    /\ ticks = 0
    /\ issued = 0
    /\ posts = [token |-> 0, api |-> 0, revoke |-> 0]
    /\ pc = [t \in Threads |-> "idle"]
    /\ call = [t \in Threads |-> NoCall]
    /\ calls = [t \in Threads |-> 0]
    /\ ctor = NoCtor
    /\ flow = NoFlow
    /\ grant = NoGrant
    /\ exc = NoExc
    /\ req = NoReq

Init ==
    /\ InitCommon
    /\ \/ /\ credHeap = <<>>
          /\ \E st \in {"SERVER_TOKEN"} \cup MalformedTokens :
                 sessHeap = <<SessionInit(st, 0).obj>>
       \/ /\ \E g \in GrantTypes, x \in InitialExpiries :
                 credHeap = <<InitialCredential(g, x)>>
          /\ sessHeap = <<SessionInit(None, 1).obj>>
    /\ clientSession = [c \in Clients |-> 1]

\* The answers to a refresh that the client specification follows up: the
\* successful ones, a recognized error and an unrecognized one.
RefreshResponses(n) ==
    {r \in TokenResponses(n) :
        r.status = STATUS_OK => r.expires_in = 0 \/ r.refresh_token = None}
    \ {r \in TokenErrorResponses : r.status \in {201, 500}}

Next ==
    \/ \E m \in Methods : ApiCall(1, 1, m)
    \/ \E r \in RefreshResponses(issued + 1) : ReceiveToken(1, r)
    \/ Dispatch(1)
    \/ \E r \in ApiResponses : ReceiveResponse(1, r)
    \/ \E d \in TickDeltas : Tick(d)

Spec == Init /\ [][Next]_vars

----------------------------------------------------------------------------
(* Properties of the client specification.                                 *)

\* The calls of UberRidesClient._api_call that are running or were the last
\* of their thread.
ApiThreads == {t \in Threads : call[t].kind = "api"}

\* The credential a call's freshness gate read.
GateCredential(t) == credHeap[call[t].cred]

\* The calls whose gate found a stale credential of a refreshable grant and
\* whose token request was answered with 200.
RefreshedThreads ==
    {t \in ApiThreads :
        /\ call[t].gate = "stale"
        /\ GateCredential(t).grant_type \in
               {"authorization_code", "client_credentials"}
        /\ call[t].tokenResp.status = 200}

\* C1.  Freshness gate: in every API call made with a stale credential of a
\* refreshable grant whose token request is answered with 200, the token
\* request is the first thing sent and precedes the building of the API
\* request, client.session is the new session the refresh returned, the
\* request is built from that session, and the Authorization header of the
\* dispatched request is "Bearer <access token of the token response>",
\* which is not the stale access token.
FreshnessGate ==
    \A t \in RefreshedThreads :
        /\ call[t].log \in {<<"token_request", "rebind">>,
                            <<"token_request", "rebind", "build">>,
                            <<"token_request", "rebind", "build",
                              "api_request">>}
        /\ call[t].newSess \in DOMAIN sessHeap
        /\ call[t].newSess # call[t].sess0
        /\ clientSession[call[t].client] = call[t].newSess
        /\ call[t].sessUsed \in {0, call[t].newSess}
        /\ call[t].authorization \in
               {<<>>, <<"Bearer", call[t].tokenResp.access_token>>}
        /\ call[t].authorization # <<>> =>
               call[t].authorization[2] # GateCredential(t).access_token
        /\ Count(call[t].log, "api_request") = 1 =>
               call[t].authorization # <<>>

\* C1 witness: a call refreshed a stale credential and its request, carrying
\* the new access token, was answered.
FreshnessGateWitness ==
    \E t \in RefreshedThreads :
        /\ pc[t] = "idle"
        /\ call[t].outcome = "Response"
        /\ call[t].authorization =
               <<"Bearer", call[t].tokenResp.access_token>>

\* C2 as stated: a token request is sent during a call if and only if the
\* session is an OAuth session whose credential is stale at that call.
RefreshIffStale ==
    \A t \in ApiThreads :
        Count(call[t].log, "token_request") = 1
            <=> /\ sessHeap[call[t].sess0].token_type = "Bearer"
                /\ GateCredential(t).expires_in_seconds
                       - call[t].gateNow < 500

\* The step sends a token request: it is the gate of an API call that found
\* a stale credential.
TokenRequestStep ==
    /\ posts'.token = posts.token + 1
    /\ \E t \in Threads :
           /\ pc[t] = "idle"
           /\ pc'[t] = "token_wait"
           /\ call'[t].kind = "api"
           /\ call'[t].gate = "stale"

\* The state part of C2 (amended).
RefreshOnlyWhenNeededState ==
    \A t \in ApiThreads :
        /\ Count(call[t].log, "token_request") = 1
               <=> /\ sessHeap[call[t].sess0].token_type = "Bearer"
                   /\ GateCredential(t).expires_in_seconds
                          - call[t].gateNow < 500
                   /\ GateCredential(t).grant_type \in
                          {"authorization_code", "client_credentials"}
        /\ Count(call[t].log, "token_request") \in {0, 1}
        /\ Count(call[t].log, "token_request") = 0 =>
               /\ call[t].newSess = 0
               /\ clientSession[call[t].client] = call[t].sess0

\* C2 (amended).  Refresh is lazy and only when needed: a token request is
\* sent during a call if and only if the session is an OAuth session whose
\* credential is stale at that call and whose grant type is
\* authorization_code or client_credentials; every other call sends no token
\* request and leaves client.session unchanged; and no token request is
\* sent by a step that is not the gate of an API call.
RefreshOnlyWhenNeeded ==
    /\ []RefreshOnlyWhenNeededState
    /\ [][posts'.token # posts.token => TokenRequestStep]_vars

\* C2 witness: one call refreshed, and a later call on the now fresh
\* credential sent no token request.
RefreshOnlyWhenNeededWitness ==
    \E t \in ApiThreads :
        /\ pc[t] = "idle"
        /\ call[t].gate = "fresh"
        /\ call[t].outcome = "Response"
        /\ call[t].sess0 # 1
        /\ posts.token = 1

\* An error reached the caller of the thread's call.
Failed(t) == call[t].outcome \notin {"none", "pending", "Response"}

\* The state part of C3.
NothingRetriedState ==
    \A t \in ApiThreads :
        /\ Count(call[t].log, "token_request") <= 1
        /\ Count(call[t].log, "api_request") <= 1
        /\ Count(call[t].log, "build") <= 1
        /\ Failed(t) => pc[t] = "idle"

\* C3.  Nothing is retried: a call sends at most one token request and at
\* most one resource-API request; once an error has been raised the call is
\* over and sends nothing more (a request sent after it belongs to a new
\* call); a refreshed credential that is still stale is used as it is.
NothingRetried ==
    /\ []NothingRetriedState
    /\ [][\A t \in ApiThreads :
              Failed(t) /\ posts' # posts => calls'[t] = calls[t] + 1]_vars

\* C3 witness: the refresh returned a credential that is already stale, and
\* the call went on to send its one request, which failed.
NothingRetriedWitness ==
    \E t \in RefreshedThreads :
        /\ pc[t] = "idle"
        /\ call[t].tokenResp.expires_in = 0
        /\ call[t].log = <<"token_request", "rebind", "build",
                           "api_request">>
        /\ call[t].outcome = "ServerError"

\* The state part of C6.
IsStaleState ==
    \A t \in ApiThreads :
        call[t].gate \in {"fresh", "stale"} =>
            /\ call[t].gate = "stale" <=>
                   GateCredential(t).expires_in_seconds
                       - call[t].gateNow < 500
            /\ GateCredential(t).expires_in_seconds - call[t].gateNow = 500
                   => call[t].gate = "fresh"
            /\ GateCredential(t).expires_in_seconds - call[t].gateNow = 3000
                   => call[t].gate = "fresh"
            /\ GateCredential(t).expires_in_seconds = 1
                   => call[t].gate = "stale"

\* C6.  is_stale is true if and only if expires_at - now < 500: exactly 500
\* seconds left is not stale, 3000 seconds left is not stale, an expiry
\* instant of 1 is stale; and the step that evaluates it changes no object.
IsStaleStrict ==
    /\ []IsStaleState
    /\ [][\A t \in Threads :
              calls'[t] # calls[t] =>
                  credHeap' = credHeap /\ sessHeap' = sessHeap]_vars

\* C6 witness: a gate evaluated a credential with exactly 500 seconds left.
IsStaleWitness ==
    \E t \in ApiThreads :
        /\ call[t].gate = "fresh"
        /\ GateCredential(t).expires_in_seconds - call[t].gateNow = 500

\* The state part of C8: the session a refresh returns and its credential
\* are new objects, and the other holder of the first session (client 2)
\* still sees the first access token and expiry.
NoInPlaceRefreshState ==
    /\ \A t \in ApiThreads :
           call[t].newSess # 0 =>
               /\ call[t].newSess # call[t].sess0
               /\ sessHeap[call[t].newSess].oauth2credential # call[t].cred
    /\ clientSession[2] = 1
    /\ credHeap # <<>> =>
           /\ sessHeap[1].oauth2credential = 1
           /\ credHeap[1].access_token = "at0"
           /\ credHeap[1].expires_in_seconds \in InitialExpiries

\* C8.  A refresh never mutates credentials in place: no step changes a
\* field of a credential or session that exists; a refresh adds a new
\* credential and a new session, which the client adopts.
NoInPlaceRefresh ==
    /\ []NoInPlaceRefreshState
    /\ [][/\ Len(credHeap') >= Len(credHeap)
          /\ Len(sessHeap') >= Len(sessHeap)
          /\ \A i \in DOMAIN credHeap : credHeap'[i] = credHeap[i]
          /\ \A i \in DOMAIN sessHeap : sessHeap'[i] = sessHeap[i]]_vars

\* C8 witness: client 1 adopted a refreshed session while client 2 holds the
\* first one.
NoInPlaceRefreshWitness ==
    /\ clientSession[1] # clientSession[2]
    /\ credHeap[sessHeap[clientSession[1]].oauth2credential].access_token
           # "at0"
    /\ credHeap[sessHeap[clientSession[2]].oauth2credential].access_token
           = "at0"

\* C9.  Across refreshes the grant type, client id and client secret never
\* change (nor the redirect URL of an authorization_code credential); the
\* access token, expiry, scopes and refresh token of a refreshed credential
\* are those of the token response it was built from; an authorization_code
\* refresh posts grant_type=refresh_token with the stored refresh token, a
\* client_credentials refresh posts grant_type=client_credentials with no
\* refresh token.
RefreshKeepsIdentity ==
    /\ \A i \in DOMAIN credHeap :
           /\ credHeap[i].grant_type = credHeap[1].grant_type
           /\ credHeap[i].client_id = credHeap[1].client_id
           /\ credHeap[i].client_secret = credHeap[1].client_secret
           /\ credHeap[1].grant_type = "authorization_code" =>
                  credHeap[i].redirect_url = credHeap[1].redirect_url
    /\ \A t \in ApiThreads :
           /\ call[t].newSess # 0 =>
                  LET new == credHeap[sessHeap[call[t].newSess]
                                          .oauth2credential]
                      r == call[t].tokenResp
                  IN  /\ new.access_token = r.access_token
                      /\ new.expires_in_seconds =
                             call[t].tokenNow + r.expires_in
                      /\ new.scopes = {r.scope[i] : i \in DOMAIN r.scope}
                      /\ new.refresh_token = r.refresh_token
                      /\ clientSession[call[t].client] = call[t].newSess
           /\ Count(call[t].log, "token_request") = 1 =>
                  LET old == GateCredential(t)
                      q == call[t].tokenReq
                  IN  /\ q.client_id = old.client_id
                      /\ q.client_secret = old.client_secret
                      /\ old.grant_type = "authorization_code" =>
                             /\ q.grant_type = "refresh_token"
                             /\ q.refresh_token = old.refresh_token
                             /\ q.redirect_uri = old.redirect_url
                      /\ old.grant_type = "client_credentials" =>
                             /\ q.grant_type = "client_credentials"
                             /\ q.refresh_token = "None"
                             /\ q.scope = old.scopes

\* C9 witness: the client's authorization_code credential is the result of
\* two successive refreshes.
RefreshKeepsIdentityWitness ==
    /\ Len(credHeap) = 3
    /\ credHeap[3].grant_type = "authorization_code"
    /\ sessHeap[clientSession[1]].oauth2credential = 3
    /\ credHeap[3].refresh_token = "None"

\* C18.  Whatever calls preceded it, every request a client sends has the
\* response hooks [surge_handler, error_handler], in that order and each
\* once; the surge handler is called first, and a handler that raises ends
\* the chain: after a SurgeError the generic handler was not called, and a
\* ClientError or ServerError of the generic handler came after the surge
\* handler let the response pass.
HookChain ==
    \A t \in ApiThreads :
        /\ Count(call[t].log, "api_request") = 1 =>
               call[t].handlers = <<"surge_handler", "error_handler">>
        /\ Count(call[t].log, "api_request") = 0 =>
               call[t].handlers = <<>> /\ call[t].ran = <<>>
        /\ call[t].ran \in {<<>>, <<"surge_handler">>,
                            <<"surge_handler", "error_handler">>}
        /\ call[t].outcome = "SurgeError" =>
               call[t].ran = <<"surge_handler">>
        /\ /\ Count(call[t].log, "api_request") = 1
           /\ call[t].outcome \in {"ClientError", "ServerError",
                                    "Response", "KeyError"}
           => call[t].ran = <<"surge_handler", "error_handler">>
        /\ Count(call[t].log, "api_request") = 1 /\ pc[t] = "idle" =>
               call[t].ran # <<>>

\* C18 witness: the second call of the client, made after a call that ended
\* in an error, raised SurgeError from the first hook of its chain.
HookChainWitness ==
    \E t \in ApiThreads :
        /\ calls[t] = 2
        /\ call[t].handlers = <<"surge_handler", "error_handler">>
        /\ call[t].outcome = "SurgeError"
        /\ call[t].ran = <<"surge_handler">>

----------------------------------------------------------------------------
(* The construction specification: a caller builds credentials, sessions   *)
(* and a client.                                                           *)

\* The server_token arguments a caller may pass.
ServerTokenArgs == {None, "", "SERVER_TOKEN"}

\* A caller builds an OAuth2Credential.
NewCredential(g) ==
    /\ Len(credHeap) < MaxCredentials
    /\ g \in GrantTypes
    /\ credHeap' = Append(credHeap,
                          OAuth2Credential("CLIENT_ID", "at0", 3000,
                                           {"profile"}, g, None, None,
                                           None, now))
    /\ UNCHANGED <<now, ticks, issued, posts, sessHeap, clientSession, pc,
                   call, calls, ctor, flow, grant, exc, req>>

\* A caller constructs Session(server_token, oauth2credential); the object
\* exists when __init__ returned.
Construct(st, oc) ==
    /\ Len(sessHeap) < MaxSessions
    /\ st \in ServerTokenArgs
    /\ oc \in {0} \cup DOMAIN credHeap
    /\ ctor' = [done |-> TRUE, server_token |-> st, oauth2credential |-> oc,
                raised |-> SessionInit(st, oc).raised,
                obj |-> SessionInit(st, oc).obj]
    /\ sessHeap' = IF SessionInit(st, oc).raised THEN sessHeap
                   ELSE Append(sessHeap, SessionInit(st, oc).obj)
    /\ UNCHANGED <<now, ticks, issued, posts, credHeap, clientSession, pc,
                   call, calls, flow, grant, exc, req>>

\* UberRidesClient(session)
BuildClient(c, s) ==
    /\ s \in DOMAIN sessHeap
    /\ clientSession[c] = 0
    /\ clientSession' = [clientSession EXCEPT ![c] = s]
    /\ UNCHANGED <<now, ticks, issued, posts, credHeap, sessHeap, pc, call,
                   calls, ctor, flow, grant, exc, req>>

InitSession ==
    /\ InitCommon
    /\ credHeap = <<>>
    /\ sessHeap = <<>>
    /\ clientSession = [c \in Clients |-> 0]

NextSession ==
    \/ \E g \in GrantTypes : NewCredential(g)
    \/ \E st \in ServerTokenArgs, oc \in {0} \cup DOMAIN credHeap :
           Construct(st, oc)
    \/ \E c \in Clients, s \in DOMAIN sessHeap : BuildClient(c, s)

SpecSession == InitSession /\ [][NextSession]_vars

\* C4 as stated.  Session(server_token, oauth2credential) raises
\* UberIllegalState when both arguments are given and when neither is given,
\* and succeeds only when exactly one is given (an argument is given when it
\* is not None).
SessionRaisesUnlessExactlyOne ==
    ctor.done =>
        (ctor.raised <=>
            (ctor.server_token # "None") = (ctor.oauth2credential # 0))

\* A session object has exactly one of server_token / oauth2credential set,
\* the other None, and the token_type that goes with it.
WellFormed(session) ==
    /\ session.has = {"server_token", "oauth2credential", "token_type"}
    /\ \/ /\ session.server_token \notin {"None", ""}
          /\ session.oauth2credential = 0
          /\ session.token_type = "Token"
       \/ /\ session.server_token = "None"
          /\ session.oauth2credential # 0
          /\ session.token_type = "Bearer"

\* C5 as stated.  Every Session that construction returns, for any argument
\* values, and every session a client holds is well formed.
SessionWellFormed ==
    /\ ctor.done /\ ~ctor.raised => WellFormed(ctor.obj)
    /\ \A c \in Clients :
           clientSession[c] # 0 => WellFormed(sessHeap[clientSession[c]])

----------------------------------------------------------------------------
(* The refresh specification: a caller calls refresh_access_token on the   *)
(* credentials it holds.                                                   *)

\* refresh_access_token(credential) up to its POST.
RefreshCall(t, cr) ==
    /\ pc[t] = "idle"
    /\ calls[t] < MaxCalls
    /\ cr \in DOMAIN credHeap
    /\ calls' = [calls EXCEPT ![t] = @ + 1]
    /\ LET credential == credHeap[cr]
           started == [NoCall EXCEPT !.kind = "refresh", !.cred = cr,
                                     !.outcome = "pending"]
       IN  IF Refreshable(credential)
           THEN /\ call' = [call EXCEPT ![t] =
                               [started EXCEPT
                                   !.tokenReq = RefreshRequest(credential),
                                   !.log = <<"token_request">>]]
                /\ pc' = [pc EXCEPT ![t] = "token_wait"]
                /\ posts' = [posts EXCEPT !.token = @ + 1]
           ELSE /\ call' = [call EXCEPT ![t] =
                               [started EXCEPT
                                   !.outcome = "UberIllegalState",
                                   !.errArg = credential.grant_type]]
                /\ pc' = [pc EXCEPT ![t] = "idle"]
                /\ posts' = posts
    /\ UNCHANGED <<now, ticks, issued, credHeap, sessHeap, clientSession,
                   ctor, flow, grant, exc, req>>

\* The token endpoint answers: the rest of _request_access_token and of
\* refresh_access_token, which returns the new Session.
ReceiveRefresh(t, r) ==
    /\ pc[t] = "token_wait"
    /\ call[t].kind = "refresh"
    /\ r \in TokenResponses(issued + 1)
    /\ IF RequestAccessTokenResult(r) = "ok"
       THEN LET objs == RefreshedObjects(
                            credHeap, sessHeap, call[t].cred,
                            RefreshedCredential(credHeap[call[t].cred],
                                                r, now))
            IN  /\ credHeap' = objs.creds
                /\ sessHeap' = objs.sessions
                /\ issued' = issued + 1
                /\ call' = [call EXCEPT ![t].tokenResp = r,
                                        ![t].tokenNow = now,
                                        ![t].newSess = objs.ref,
                                        ![t].outcome = "Session"]
       ELSE /\ call' = [call EXCEPT
                           ![t].tokenResp = r,
                           ![t].outcome = RequestAccessTokenResult(r)]
            /\ UNCHANGED <<credHeap, sessHeap, issued>>
    /\ pc' = [pc EXCEPT ![t] = "idle"]
    /\ UNCHANGED <<now, ticks, posts, clientSession, calls, ctor, flow,
                   grant, exc, req>>

InitRefresh ==
    /\ InitCommon
    /\ \E g \in GrantTypes, x \in InitialExpiries :
           credHeap = <<InitialCredential(g, x)>>
    /\ sessHeap = <<SessionInit(None, 1).obj>>
    /\ clientSession = [c \in Clients |-> 0]

NextRefresh ==
    \/ \E cr \in DOMAIN credHeap : RefreshCall(1, cr)
    \/ \E r \in TokenResponses(issued + 1) : ReceiveRefresh(1, r)
    \/ \E d \in TickDeltas : Tick(d)

SpecRefresh == InitRefresh /\ [][NextRefresh]_vars

\* The calls of refresh_access_token on a credential whose grant type is
\* neither authorization_code nor client_credentials.
UnrefreshableCalls ==
    {t \in Threads :
        /\ call[t].kind = "refresh"
        /\ credHeap[call[t].cred].grant_type \notin
               {"authorization_code", "client_credentials"}}

\* C7.  refresh_access_token on a credential whose grant type is implicit,
\* or any other than authorization_code and client_credentials, raises
\* UberIllegalState with a message naming the grant type, returns no
\* Session, and the step sends no token request and creates no object.
RefreshRejectsImplicit ==
    /\ [](\A t \in UnrefreshableCalls :
              /\ pc[t] = "idle"
              /\ call[t].outcome = "UberIllegalState"
              /\ call[t].errArg = credHeap[call[t].cred].grant_type
              /\ call[t].log = <<>>
              /\ call[t].newSess = 0)
    /\ [][\A t \in Threads :
              /\ calls'[t] # calls[t]
              /\ credHeap[call'[t].cred].grant_type \notin
                     {"authorization_code", "client_credentials"}
              => /\ posts' = posts
                 /\ credHeap' = credHeap
                 /\ sessHeap' = sessHeap]_vars

\* C7 witness: refresh_access_token was called on an Implicit credential
\* that is not stale, and on one that is.
RefreshRejectsImplicitWitness ==
    \E t \in UnrefreshableCalls :
        /\ credHeap[call[t].cred].grant_type = "implicit"
        /\ credHeap[call[t].cred].expires_in_seconds - now >= 500
        /\ call[t].outcome = "UberIllegalState"

----------------------------------------------------------------------------
(* The authorization specification: the Authorization Code Grant.          *)

\* AuthorizationCodeGrant.get_authorization_url
GetAuthorizationUrl ==
    /\ \A t \in Threads : pc[t] = "idle"
    /\ Len(grant.urls) < MaxUrls
    /\ grant' = [grant EXCEPT
                    !.url = AuthorizationUrl(flow),
                    !.urls = Append(@, AuthorizationUrl(flow).state)]
    /\ UNCHANGED <<now, ticks, issued, posts, credHeap, sessHeap,
                   clientSession, pc, call, calls, ctor, flow, exc, req>>

\* AuthorizationCodeGrant.get_session(redirect_url) up to its POST.
GetSession(t, url) ==
    /\ pc[t] = "idle"
    /\ calls[t] < MaxCalls
    /\ url \in CallbackUrls
    /\ calls' = [calls EXCEPT ![t] = @ + 1]
    /\ grant' = [grant EXCEPT !.callback = url,
                              !.implicit = NoImplicitUrl]
    /\ LET verified == VerifyQuery(flow.state_token,
                                   ExtractQuery(url, FALSE))
           started == [NoCall EXCEPT !.kind = "get_session",
                                     !.outcome = "pending"]
       IN  IF verified.raised
           THEN /\ call' = [call EXCEPT ![t] =
                               [started EXCEPT
                                   !.outcome = "UberIllegalState",
                                   !.errArg = verified.message]]
                /\ pc' = [pc EXCEPT ![t] = "idle"]
                /\ posts' = posts
           ELSE /\ call' = [call EXCEPT ![t] =
                               [started EXCEPT
                                   !.tokenReq =
                                       TokenRequest(
                                           AUTHORIZATION_CODE_GRANT,
                                           flow.client_id,
                                           flow.client_secret, {},
                                           verified.code,
                                           flow.redirect_url, None),
                                   !.log = <<"token_request">>]]
                /\ pc' = [pc EXCEPT ![t] = "token_wait"]
                /\ posts' = [posts EXCEPT !.token = @ + 1]
    /\ UNCHANGED <<now, ticks, issued, credHeap, sessHeap, clientSession,
                   ctor, flow, exc, req>>

\* The token endpoint answers the exchange: the rest of
\* _request_access_token, make_from_response and Session(...).
ReceiveGrant(t, r) ==
    /\ pc[t] = "token_wait"
    /\ call[t].kind = "get_session"
    /\ r \in TokenResponses(issued + 1)
    /\ IF RequestAccessTokenResult(r) = "ok"
       THEN /\ credHeap' =
                   Append(credHeap,
                          MakeFromResponse(r, AUTHORIZATION_CODE_GRANT,
                                           flow.client_id,
                                           flow.client_secret,
                                           flow.redirect_url, now).cred)
            /\ sessHeap' =
                   Append(sessHeap,
                          SessionInit(None, Len(credHeap) + 1).obj)
            /\ issued' = issued + 1
            /\ call' = [call EXCEPT ![t].tokenResp = r,
                                    ![t].tokenNow = now,
                                    ![t].newSess = Len(sessHeap) + 1,
                                    ![t].outcome = "Session"]
            /\ grant' = [grant EXCEPT
                            !.accepted =
                                Append(@, ExtractQuery(grant.callback,
                                                       FALSE).state)]
       ELSE /\ call' = [call EXCEPT
                           ![t].tokenResp = r,
                           ![t].outcome = RequestAccessTokenResult(r)]
            /\ UNCHANGED <<credHeap, sessHeap, issued, grant>>
    /\ pc' = [pc EXCEPT ![t] = "idle"]
    /\ UNCHANGED <<now, ticks, posts, clientSession, calls, ctor, flow,
                   exc, req>>

\* ImplicitGrant.get_session(redirect_url): no request is sent, the
\* credential and the Session are built from the callback URL.
ImplicitGetSession(t, url) ==
    /\ pc[t] = "idle"
    /\ calls[t] < MaxCalls
    /\ url \in ImplicitCallbackUrls
    /\ calls' = [calls EXCEPT ![t] = @ + 1]
    /\ grant' = [grant EXCEPT !.implicit = url,
                              !.callback = NoGrant.callback]
    /\ LET query_params == ExtractQuery(url, TRUE)
           result == ImplicitGetSessionResult(query_params)
           started == [NoCall EXCEPT !.kind = "implicit_session",
                                     !.outcome = result]
       IN  IF result = "Session"
           THEN /\ credHeap' =
                       Append(credHeap,
                              ImplicitCredential(ImplicitFlow, query_params,
                                                 now))
                /\ sessHeap' =
                       Append(sessHeap,
                              SessionInit(None, Len(credHeap) + 1).obj)
                /\ call' = [call EXCEPT ![t] =
                               [started EXCEPT
                                   !.newSess = Len(sessHeap) + 1]]
           ELSE /\ call' = [call EXCEPT ![t] = started]
                /\ UNCHANGED <<credHeap, sessHeap>>
    /\ UNCHANGED <<now, ticks, issued, posts, clientSession, pc, ctor, flow,
                   exc, req>>

InitAuth ==
    /\ now = Epoch
    /\ ticks = 0
    /\ issued = 0
    /\ posts = [token |-> 0, api |-> 0, revoke |-> 0]
    /\ pc = [t \in Threads |-> "idle"]
    /\ call = [t \in Threads |-> NoCall]
    /\ calls = [t \in Threads |-> 0]
    /\ ctor = NoCtor
    /\ \E st \in StateTokens :
           flow = AuthorizationCodeGrantInit(
                      "CLIENT_ID", {"profile", "history"}, "CLIENT_SECRET",
                      "REDIRECT_URL", st)
    /\ grant = NoGrant
    /\ exc = NoExc
    /\ req = NoReq
    /\ credHeap = <<>>
    /\ sessHeap = <<>>
    /\ clientSession = [c \in Clients |-> 0]

NextAuth ==
    \/ GetAuthorizationUrl
    \/ \E url \in CallbackUrls : GetSession(1, url)
    \/ \E r \in TokenResponses(issued + 1) : ReceiveGrant(1, r)
    \/ \E url \in ImplicitCallbackUrls : ImplicitGetSession(1, url)

SpecAuth == InitAuth /\ [][NextAuth]_vars

\* The get_session calls of the flow.
SessionCalls == {t \in Threads : call[t].kind = "get_session"}

\* The callback URL's query string carries the parameter with a value.
Carries(p) == grant.callback.query[p] \notin {"None", ""}

\* C10.  get_session raises UberIllegalState, and sends no token request,
\* for every callback URL whose query string carries no state or a state
\* other than the stored state_token, for every callback carrying both code
\* and error, and for every callback carrying neither.
GetSessionRejects ==
    \A t \in SessionCalls :
        \/ ~Carries("state")
        \/ grant.callback.query.state # flow.state_token
        \/ Carries("code") /\ Carries("error")
        \/ ~Carries("code") /\ ~Carries("error")
        => /\ call[t].outcome = "UberIllegalState"
           /\ pc[t] = "idle"
           /\ call[t].log = <<>>
           /\ call[t].newSess = 0

\* C10 witness: a callback with a code and the state of another flow was
\* rejected.
GetSessionRejectsWitness ==
    \E t \in SessionCalls :
        /\ Carries("state")
        /\ grant.callback.query.state # flow.state_token
        /\ Carries("code")
        /\ ~Carries("error")
        /\ call[t].outcome = "UberIllegalState"

\* C11 as stated.  The state token is consumed by the get_session that
\* accepts it: no two get_session calls on the flow object return a Session
\* for callbacks carrying the same state.
StateConsumedOnce ==
    \A i, j \in DOMAIN grant.accepted :
        i # j => grant.accepted[i] # grant.accepted[j]

\* C12 as stated.  Every get_authorization_url embeds a fresh state: no two
\* authorization URLs of the flow object carry the same state value.
FreshStatePerUrl ==
    \A i, j \in DOMAIN grant.urls :
        i # j => grant.urls[i] # grant.urls[j]

----------------------------------------------------------------------------
(* The token specification: every operation that posts to the token or the *)
(* revoke endpoint.                                                        *)

\* The ClientCredentialGrant object of the application.
ClientCredentialFlow ==
    ClientCredentialGrantInit("CLIENT_ID", {"profile", "history"},
                              "CLIENT_SECRET")

\* ClientCredentialGrant.get_session() up to its POST.
ClientCredentialGetSession(t) ==
    /\ pc[t] = "idle"
    /\ calls[t] < MaxCalls
    /\ calls' = [calls EXCEPT ![t] = @ + 1]
    /\ call' = [call EXCEPT ![t] =
                   [NoCall EXCEPT
                       !.kind = "client_session",
                       !.outcome = "pending",
                       !.tokenReq =
                           TokenRequest(CLIENT_CREDENTIAL_GRANT,
                                        ClientCredentialFlow.client_id,
                                        ClientCredentialFlow.client_secret,
                                        ClientCredentialFlow.scopes,
                                        None, None, None),
                       !.log = <<"token_request">>]]
    /\ pc' = [pc EXCEPT ![t] = "token_wait"]
    /\ posts' = [posts EXCEPT !.token = @ + 1]
    /\ UNCHANGED <<now, ticks, issued, credHeap, sessHeap, clientSession,
                   ctor, flow, grant, exc, req>>

\* The token endpoint answers ClientCredentialGrant.get_session.
ReceiveClientGrant(t, r) ==
    /\ pc[t] = "token_wait"
    /\ call[t].kind = "client_session"
    /\ r \in TokenResponses(issued + 1)
    /\ IF RequestAccessTokenResult(r) = "ok"
       THEN /\ credHeap' =
                   Append(credHeap,
                          MakeFromResponse(r, CLIENT_CREDENTIAL_GRANT,
                                           ClientCredentialFlow.client_id,
                                           ClientCredentialFlow.client_secret,
                                           None, now).cred)
            /\ sessHeap' =
                   Append(sessHeap,
                          SessionInit(None, Len(credHeap) + 1).obj)
            /\ issued' = issued + 1
            /\ call' = [call EXCEPT ![t].tokenResp = r,
                                    ![t].tokenNow = now,
                                    ![t].newSess = Len(sessHeap) + 1,
                                    ![t].outcome = "Session"]
       ELSE /\ call' = [call EXCEPT
                           ![t].tokenResp = r,
                           ![t].outcome = RequestAccessTokenResult(r)]
            /\ UNCHANGED <<credHeap, sessHeap, issued>>
    /\ pc' = [pc EXCEPT ![t] = "idle"]
    /\ UNCHANGED <<now, ticks, posts, clientSession, calls, ctor, flow,
                   grant, exc, req>>

\* revoke_access_token(credential) up to its POST.
RevokeCall(t, cr) ==
    /\ pc[t] = "idle"
    /\ calls[t] < MaxCalls
    /\ cr \in DOMAIN credHeap
    /\ calls' = [calls EXCEPT ![t] = @ + 1]
    /\ call' = [call EXCEPT ![t] =
                   [NoCall EXCEPT !.kind = "revoke", !.cred = cr,
                                  !.outcome = "pending",
                                  !.log = <<"revoke_request">>]]
    /\ pc' = [pc EXCEPT ![t] = "revoke_wait"]
    /\ posts' = [posts EXCEPT !.revoke = @ + 1]
    /\ UNCHANGED <<now, ticks, issued, credHeap, sessHeap, clientSession,
                   ctor, flow, grant, exc, req>>

\* The revoke endpoint answers.
ReceiveRevoke(t, r) ==
    /\ pc[t] = "revoke_wait"
    /\ r \in RevokeResponses
    /\ call' = [call EXCEPT ![t].tokenResp = r,
                            ![t].outcome = RevokeResult(r)]
    /\ pc' = [pc EXCEPT ![t] = "idle"]
    /\ UNCHANGED <<now, ticks, issued, posts, credHeap, sessHeap,
                   clientSession, calls, ctor, flow, grant, exc, req>>

InitToken ==
    /\ now = Epoch
    /\ ticks = 0
    /\ issued = 0
    /\ posts = [token |-> 0, api |-> 0, revoke |-> 0]
    /\ pc = [t \in Threads |-> "idle"]
    /\ call = [t \in Threads |-> NoCall]
    /\ calls = [t \in Threads |-> 0]
    /\ ctor = NoCtor
    /\ flow = AuthorizationCodeGrantInit(
                  "CLIENT_ID", {"profile", "history"}, "CLIENT_SECRET",
                  "REDIRECT_URL", "STATE_A")
    /\ grant = NoGrant
    /\ exc = NoExc
    /\ req = NoReq
    /\ \E g \in GrantTypes :
           credHeap = <<InitialCredential(g, Epoch + 3000)>>
    /\ sessHeap = <<SessionInit(None, 1).obj>>
    /\ clientSession = [c \in Clients |-> 0]

\* The callbacks of a user who granted access: a code, no error, and the
\* state of this flow or of another one.
GrantedCallbackUrls ==
    {url \in CallbackUrls :
        /\ url.fragment = NoParams
        /\ url.query.code = "AUTH_CODE"
        /\ url.query.error = None
        /\ url.query.state \in StateTokens}

NextToken ==
    \/ \E url \in GrantedCallbackUrls : GetSession(1, url)
    \/ \E r \in TokenResponses(issued + 1) : ReceiveGrant(1, r)
    \/ ClientCredentialGetSession(1)
    \/ \E r \in TokenResponses(issued + 1) : ReceiveClientGrant(1, r)
    \/ \E cr \in DOMAIN credHeap : RefreshCall(1, cr)
    \/ \E r \in TokenResponses(issued + 1) : ReceiveRefresh(1, r)
    \/ \E cr \in DOMAIN credHeap : RevokeCall(1, cr)
    \/ \E r \in RevokeResponses : ReceiveRevoke(1, r)

SpecToken == InitToken /\ [][NextToken]_vars

\* The calls that posted to the token or the revoke endpoint and were
\* answered with a status other than 200.
FailedPosts ==
    {t \in Threads :
        /\ call[t].kind \in {"get_session", "client_session", "refresh",
                              "revoke"}
        /\ call[t].tokenResp.status \notin {0, 200}}

ImplicitCalls == {t \in Threads : call[t].kind = "implicit_session"}

\* The fragment of the Implicit callback carries the parameter with a value.
FragmentCarries(p) == grant.implicit.fragment[p] \notin {"None", ""}

\* The credential of the Session a get_session call returned.
ReturnedCredential(t) == credHeap[sessHeap[call[t].newSess].oauth2credential]

\* C13.  ImplicitGrant.get_session reads the fragment only: an error in the
\* fragment raises UberIllegalState; a fragment with access_token X,
\* expires_in and scope "profile history" and no error gives a credential
\* with access token X and scopes {profile, history}, whatever the query
\* string holds (another token, another scope, an error).
\* AuthorizationCodeGrant.get_session reads the query string only: a state
\* and a code in the fragment do not make up for their absence in the query
\* string, and the code exchanged is the one of the query string.
GetSessionReadsItsPart ==
    /\ \A t \in ImplicitCalls :
           /\ FragmentCarries("error") =>
                  /\ call[t].outcome = "UberIllegalState"
                  /\ call[t].newSess = 0
           /\ /\ ~FragmentCarries("error")
              /\ FragmentCarries("access_token")
              /\ FragmentCarries("expires_in")
              /\ grant.implicit.fragment.scope = "profile history"
              => /\ call[t].outcome = "Session"
                 /\ call[t].newSess \in DOMAIN sessHeap
                 /\ ReturnedCredential(t).access_token =
                        grant.implicit.fragment.access_token
                 /\ ReturnedCredential(t).scopes = {"profile", "history"}
           /\ call[t].outcome = "Session" =>
                  /\ ReturnedCredential(t).access_token # "QUERY_TOKEN"
                  /\ ReturnedCredential(t).scopes # {"query_scope"}
    /\ \A t \in SessionCalls :
           /\ ~Carries("state") \/ (~Carries("code") /\ ~Carries("error"))
                  => call[t].outcome = "UberIllegalState"
           /\ call[t].log # <<>> =>
                  /\ call[t].tokenReq.code = grant.callback.query.code
                  /\ call[t].tokenReq.code # "FRAGMENT_CODE"

\* C13 witness: an Implicit callback whose query string holds an error and
\* another token, and whose fragment holds the token, gave a Session.
GetSessionReadsItsPartWitness ==
    \E t \in ImplicitCalls :
        /\ grant.implicit.query.error = "query_error"
        /\ grant.implicit.query.access_token = "QUERY_TOKEN"
        /\ grant.implicit.fragment.scope = "profile history"
        /\ call[t].outcome = "Session"
        /\ ReturnedCredential(t).access_token = "FRAGMENT_TOKEN"
        /\ ReturnedCredential(t).scopes = {"profile", "history"}

----------------------------------------------------------------------------
(* The implicit specification: an application obtains Sessions from the    *)
(* Implicit Grant, builds a client on one of them and makes API calls.     *)
(* The refresh of an Implicit credential never gets to its POST, so there  *)
(* is no answer of the token endpoint to receive.                          *)

InitImplicit ==
    /\ InitCommon
    /\ credHeap = <<>>
    /\ sessHeap = <<>>
    /\ clientSession = [c \in Clients |-> 0]

NextImplicit ==
    \/ \E url \in ImplicitCallbackUrls : ImplicitGetSession(1, url)
    \/ \E s \in DOMAIN sessHeap : BuildClient(1, s)
    \/ \E m \in Methods : ApiCall(1, 1, m)
    \/ Dispatch(1)
    \/ \E r \in ApiResponses : ReceiveResponse(1, r)
    \/ \E d \in TickDeltas : Tick(d)

SpecImplicit == InitImplicit /\ [][NextImplicit]_vars

\* C14.  Every credential ImplicitGrant.get_session produces has grant type
\* implicit, no refresh token and no client secret, whatever the callback
\* holds; no client operation sends a token request, replaces the session
\* of a client that holds one, or changes an existing credential or session.
ImplicitNeverRefreshed ==
    /\ [](\A i \in DOMAIN credHeap :
              /\ credHeap[i].grant_type = "implicit"
              /\ credHeap[i].refresh_token = "None"
              /\ credHeap[i].client_secret = "None")
    /\ [](posts.token = 0 /\ \A t \in Threads : pc[t] # "token_wait")
    /\ [][/\ \A c \in Clients :
                 clientSession[c] # 0 => clientSession'[c] = clientSession[c]
          /\ \A i \in DOMAIN credHeap : credHeap'[i] = credHeap[i]
          /\ \A i \in DOMAIN sessHeap : sessHeap'[i] = sessHeap[i]]_vars

\* C14 witness: a client holding a Session built from a callback that had a
\* refresh_token in its fragment made a call when the credential was stale;
\* the call raised and the client still holds that Session.
ImplicitNeverRefreshedWitness ==
    \E t \in ApiThreads :
        /\ grant.implicit.fragment.refresh_token = "FRAGMENT_REFRESH"
        /\ call[t].gate = "stale"
        /\ call[t].outcome = "UberIllegalState"
        /\ clientSession[call[t].client] = call[t].sess0

----------------------------------------------------------------------------
(* The error specification: a response is handed to the hooks of a request *)
(* and to the constructors of the error classes.                           *)

\* The response goes through the hooks of a request.
RunResponseHooks ==
    /\ exc.hooks = Unset
    /\ exc' = [exc EXCEPT !.hooks = HookedResponse(exc.response),
                       !.response.body = OriginalBody(exc.response)]
    /\ UNCHANGED <<now, ticks, issued, posts, credHeap, sessHeap,
                   clientSession, pc, call, calls, ctor, flow, grant, req>>

\* error_handler(response)
RunErrorHandler ==
    /\ exc.generic = Unset
    /\ exc' = [exc EXCEPT !.generic = error_handler(exc.response),
                       !.response.body = OriginalBody(exc.response)]
    /\ UNCHANGED <<now, ticks, issued, posts, credHeap, sessHeap,
                   clientSession, pc, call, calls, ctor, flow, grant, req>>

\* ClientError(response)
NewClientError ==
    /\ exc.client = Unset
    /\ exc' = [exc EXCEPT !.client = ClientErrorInit(exc.response),
                       !.response.body = OriginalBody(exc.response)]
    /\ UNCHANGED <<now, ticks, issued, posts, credHeap, sessHeap,
                   clientSession, pc, call, calls, ctor, flow, grant, req>>

\* ServerError(response)
NewServerError ==
    /\ exc.server = Unset
    /\ exc' = [exc EXCEPT !.server = ServerErrorInit(exc.response),
                       !.response.body = OriginalBody(exc.response)]
    /\ UNCHANGED <<now, ticks, issued, posts, credHeap, sessHeap,
                   clientSession, pc, call, calls, ctor, flow, grant, req>>

InitErrors ==
    /\ now = Epoch
    /\ ticks = 0
    /\ issued = 0
    /\ posts = [token |-> 0, api |-> 0, revoke |-> 0]
    /\ pc = [t \in Threads |-> "idle"]
    /\ call = [t \in Threads |-> NoCall]
    /\ calls = [t \in Threads |-> 0]
    /\ ctor = NoCtor
    /\ flow = NoFlow
    /\ grant = NoGrant
    /\ credHeap = <<>>
    /\ sessHeap = <<>>
    /\ clientSession = [c \in Clients |-> 0]
    /\ \E r \in HttpResponses : exc = [NoExc EXCEPT !.response = r]
    /\ req = NoReq

NextErrors ==
    \/ RunResponseHooks
    \/ RunErrorHandler
    \/ NewClientError
    \/ NewServerError

SpecErrors == InitErrors /\ [][NextErrors]_vars

\* The body has one of the three shapes _adapt_response adapts.
Recognized(body) ==
    \/ body.errors # <<>>
    \/ Truthy(body.code) /\ Truthy(body.message)
    \/ body.error.type # "none"

\* The class error_handler raises for a response of the given range.
ClassOf(response, class) ==
    IF response.content_type # "application/json" THEN "UnknownHttpError"
    ELSE IF ~response.parses THEN "ValueError"
    ELSE IF Recognized(response.body) THEN class
    ELSE "UnknownHttpError"

SurgeCodeOf(body) ==
    IF body.errors # <<>> THEN body.errors[1].code
    ELSE IF body.error.type = "dict" THEN body.error.text
    ELSE None

\* C17: through the hooks of a request, a response whose body is JSON of a
\* recognized shape raises SurgeError exactly when its status is 409 and its
\* error code is "surge"; the SurgeError holds the errors and meta of the
\* ClientError of the same response and the id and href of
\* meta.surge_confirmation; a 409 with another code raises a plain
\* ClientError.
SurgeErrorIffConflictSurge ==
    (/\ exc.hooks # Unset
     /\ exc.response.content_type = "application/json"
     /\ exc.response.parses
     /\ Recognized(exc.response.body)) =>
        /\ exc.hooks.raised = "SurgeError" <=>
               /\ exc.response.status = STATUS_CONFLICT
               /\ SurgeCodeOf(exc.response.body) = "surge"
        /\ exc.hooks.raised = "SurgeError" =>
               /\ exc.hooks.errors = ClientErrorInit(exc.response).errors
               /\ exc.hooks.meta = ClientErrorInit(exc.response).meta
               /\ exc.hooks.surge_confirmation_id =
                      exc.response.body.meta.surge_confirmation_id
               /\ exc.hooks.surge_confirmation_href =
                      exc.response.body.meta.href
        /\ (/\ exc.response.status = STATUS_CONFLICT
            /\ SurgeCodeOf(exc.response.body) # "surge") =>
               exc.hooks.raised = "ClientError"

ErrorsListAndFirstError ==
    (exc.client # Unset /\ exc.server # Unset) =>
        /\ exc.client.raised = "ClientError" <=>
               exc.server.raised = "ServerError"
        /\ exc.client.raised = "ClientError" =>
               /\ Len(exc.client.errors) >= 1
               /\ exc.response.body.errors # <<>> =>
                      exc.client.errors = exc.response.body.errors
               /\ exc.response.body.errors = <<>> =>
                      Len(exc.client.errors) = 1
               /\ exc.client.error = NoErrorDetails
               /\ exc.server.error = exc.client.errors[1]
               /\ exc.server.errors = <<>>
               /\ exc.server.meta = exc.client.meta

ErrorsListAndFirstErrorWitness ==
    /\ exc.client.raised = "ClientError"
    /\ exc.server.raised = "ServerError"
    /\ Len(exc.client.errors) = 2
    /\ exc.server.error = exc.client.errors[1]
    /\ exc.client.errors[1] # exc.client.errors[2]

\* C21: the ClientError of a response holds, for a body of shape B, one
\* ErrorDetails of the HTTP status, the body's code and its message, and as
\* meta the body without code and message; for shape C, one ErrorDetails of
\* the HTTP status, the reason phrase and the error string, and as meta the
\* rest of the body; for shape A, one ErrorDetails per entry of errors, in
\* order, and as meta the body's meta.  The body of the response is as it
\* was received.
ErrorContentPerShape ==
    exc.client.raised = "ClientError" =>
        /\ exc.response.body.errors # <<>> =>
               /\ Len(exc.client.errors) = Len(exc.response.body.errors)
               /\ \A i \in DOMAIN exc.response.body.errors :
                      /\ exc.client.errors[i].status =
                             exc.response.body.errors[i].status
                      /\ exc.client.errors[i].code =
                             exc.response.body.errors[i].code
                      /\ exc.client.errors[i].title =
                             exc.response.body.errors[i].title
               /\ exc.client.meta =
                      MetaOf("meta", [EmptyBody EXCEPT
                                         !.meta = exc.response.body.meta])
        /\ (/\ exc.response.body.errors = <<>>
            /\ Truthy(exc.response.body.code)
            /\ Truthy(exc.response.body.message)) =>
               /\ Len(exc.client.errors) = 1
               /\ exc.client.errors[1].status = exc.response.status
               /\ exc.client.errors[1].code = exc.response.body.code
               /\ exc.client.errors[1].title = exc.response.body.message
               /\ exc.client.meta.of = "rest"
               /\ exc.client.meta.rest.code = None
               /\ exc.client.meta.rest.message = None
               /\ exc.client.meta.rest.error = exc.response.body.error
               /\ exc.client.meta.rest.meta = exc.response.body.meta
               /\ (/\ exc.response.body.error = NoError
                   /\ exc.response.body.meta = NoMeta) =>
                      exc.client.meta.rest = EmptyBody
        /\ (/\ exc.response.body.errors = <<>>
            /\ ~(/\ Truthy(exc.response.body.code)
                 /\ Truthy(exc.response.body.message))) =>
               /\ exc.response.body.error.type # "none"
               /\ Len(exc.client.errors) = 1
               /\ exc.client.errors[1].status = exc.response.status
               /\ exc.client.errors[1].code = Reason(exc.response.status)
               /\ exc.client.errors[1].title = exc.response.body.error.text
               /\ exc.client.meta.of = "rest"
               /\ exc.client.meta.rest.error = NoError
               /\ exc.client.meta.rest.code = exc.response.body.code
               /\ exc.client.meta.rest.message = exc.response.body.message
               /\ exc.client.meta.rest.meta = exc.response.body.meta

ErrorContentPerShapeWitness ==
    /\ exc.client.raised = "ClientError"
    /\ exc.response.body.errors = <<>>
    /\ exc.response.body.code = "unauthorized"
    /\ Truthy(exc.response.body.message)
    /\ exc.response.body.error.type = "str"
    /\ exc.response.body.meta = MetaPlain
    /\ exc.client.meta.rest.error.type = "str"
    /\ exc.client.meta.rest.code = None

----------------------------------------------------------------------------
(* The request specification: an application builds a Request on a Session *)
(* and executes it, and calls build_url and generate_data.                 *)

\* The methods, hosts, paths and dicts the application passes.
RequestMethods == ALLOWED_METHODS \cup {"TRACE"}

Hosts == {<<"a", ".", "c">>, <<"b">>, URL_SCHEME \o <<"a", ".", "c">>}

Paths ==
    {<<"v", "1">>, <<"~", "m", "e">>, <<"v", "1", "/", "m", "e">>,
     <<"a", " ", "?">>, <<"/", "v">>}

Dicts ==
    {NoneDict, Dict(<<>>), Dict(<<[k |-> <<"q">>, v |-> <<"x", " ", "\"">>]>>),
     Dict(<<[k |-> <<"q">>, v |-> <<"x">>],
            [k |-> <<"a", "&">>, v |-> <<"1", "=">>]>>)}

\* The Sessions the Request is built on: token_type is an attribute the
\* application can assign.
RequestSessions ==
    {SessionObject(SessionAttrs, st, 0, tt) :
        st \in {"SERVER_TOKEN"} \cup MalformedTokens,
        tt \in {SERVER_TOKEN_TYPE, "Basic"}}
    \cup {SessionObject(SessionAttrs, None, 1, tt) :
             tt \in {OAUTH_TOKEN_TYPE, "Basic"}}

\* Request.execute up to the request being sent.
Execute ==
    /\ req.prepared.raised = "unset"
    /\ req' = [req EXCEPT
                  !.prepared =
                      RequestPrepare(sessHeap[1], credHeap, req.api_host,
                                     req.method, req.path, <<>>, req.args),
                  !.sent =
                      RequestPrepare(sessHeap[1], credHeap, req.api_host,
                                     req.method, req.path, <<>>,
                                     req.args).raised = "none"]
    /\ posts' = [posts EXCEPT
                    !.api = IF RequestPrepare(sessHeap[1], credHeap,
                                              req.api_host, req.method,
                                              req.path, <<>>,
                                              req.args).raised = "none"
                            THEN @ + 1 ELSE @]
    /\ UNCHANGED <<now, ticks, issued, credHeap, sessHeap, clientSession,
                   pc, call, calls, ctor, flow, grant, exc>>

\* build_url(host, path, params)
BuildUrlCall ==
    /\ req.url = <<>>
    /\ req' = [req EXCEPT
                  !.url = BuildUrl(req.api_host, req.path, req.params)]
    /\ UNCHANGED <<now, ticks, issued, posts, credHeap, sessHeap,
                   clientSession, pc, call, calls, ctor, flow, grant, exc>>

\* generate_data(method, args)
GenerateDataCall ==
    /\ ~req.generated.done
    /\ req' = [req EXCEPT
                  !.generated =
                      [done |-> TRUE,
                       data |-> GenerateData(req.method, req.args).data,
                       params |-> GenerateData(req.method, req.args).params]]
    /\ UNCHANGED <<now, ticks, issued, posts, credHeap, sessHeap,
                   clientSession, pc, call, calls, ctor, flow, grant, exc>>

InitRequest ==
    /\ now = Epoch
    /\ ticks = 0
    /\ issued = 0
    /\ posts = [token |-> 0, api |-> 0, revoke |-> 0]
    /\ pc = [t \in Threads |-> "idle"]
    /\ call = [t \in Threads |-> NoCall]
    /\ calls = [t \in Threads |-> 0]
    /\ ctor = NoCtor
    /\ flow = NoFlow
    /\ grant = NoGrant
    /\ exc = NoExc
    /\ \E a \in {"at0"} \cup MalformedTokens :
           credHeap = <<[InitialCredential(AUTHORIZATION_CODE_GRANT,
                                           Epoch + 3000)
                            EXCEPT !.access_token = a]>>
    /\ \E session \in RequestSessions : sessHeap = <<session>>
    /\ clientSession = [c \in Clients |-> 0]
    /\ \E m \in RequestMethods, h \in Hosts, p \in Paths, d \in Dicts :
           req = [NoReq EXCEPT !.method = m, !.api_host = h, !.path = p,
                               !.args = d, !.params = d]

NextRequest ==
    \/ Execute
    \/ BuildUrlCall
    \/ GenerateDataCall

SpecRequest == InitRequest /\ [][NextRequest]_vars

\* C22: generate_data puts the arguments in one place.  For POST, PUT and
\* PATCH the data is the JSON text of the arguments and the params are
\* empty; for GET and DELETE the params are the arguments, unchanged, and
\* the data is empty; the request _prepare returns carries the same data
\* and params; the two sets of methods are disjoint and make up the allowed
\* methods.
GenerateDataPlacesArgs ==
    /\ BODY_METHODS \cap QUERY_METHODS = {}
    /\ BODY_METHODS \cup QUERY_METHODS = ALLOWED_METHODS
    /\ BODY_METHODS = {"POST", "PUT", "PATCH"}
    /\ (req.generated.done /\ req.method \in {"POST", "PUT", "PATCH"}) =>
           /\ req.generated.data.type = "str"
           /\ req.generated.data.text = Dumps(req.args)
           /\ req.generated.params = Dict(<<>>)
    /\ (req.generated.done /\ req.method \in {"GET", "DELETE"}) =>
           /\ req.generated.params = req.args
           /\ req.generated.data = Data("dict", <<>>, Dict(<<>>))
    /\ (/\ req.prepared.raised = "none"
        /\ req.method \in {"POST", "PUT", "PATCH"}) =>
           /\ req.prepared.data.type = "str"
           /\ req.prepared.data.text = Dumps(req.args)
           /\ req.prepared.params = Dict(<<>>)
    /\ (req.prepared.raised = "none" /\ req.method \in {"GET", "DELETE"}) =>
           /\ req.prepared.params = req.args
           /\ req.prepared.data = Data("dict", <<>>, Dict(<<>>))

GenerateDataPlacesArgsWitness ==
    /\ req.generated.done
    /\ req.prepared.raised = "none"
    /\ req.method = "PATCH"
    /\ Len(req.args.items) = 2
    /\ req.generated.data.text[1] = "{"
    /\ req.prepared.data.text = req.generated.data.text
    /\ req.generated.params.items = <<>>

\* C23: a Request is sent exactly when its method is one of GET, POST, PUT,
\* DELETE and PATCH, the token_type of its session is Token or Bearer and
\* the token has only letters, digits, '_' and '-'; otherwise execute raises
\* UberIllegalState and nothing is sent; the request sent carries
\* "<token_type> <token>" as Authorization and has the content type
\* application/json exactly when its method is POST, PUT or PATCH.
SentOnlyIfValid ==
    req.prepared.raised # "unset" =>
        /\ req.sent <=>
               /\ req.method \in {"GET", "POST", "PUT", "DELETE", "PATCH"}
               /\ sessHeap[1].token_type \in {"Token", "Bearer"}
               /\ HeaderToken(sessHeap[1], credHeap) \in
                      {"SERVER_TOKEN", "at0"}
        /\ ~req.sent =>
               /\ req.prepared.raised = "UberIllegalState"
               /\ posts.api = 0
        /\ req.sent =>
               /\ req.prepared.raised = "none"
               /\ posts.api = 1
               /\ req.prepared.authorization =
                      <<sessHeap[1].token_type,
                        HeaderToken(sessHeap[1], credHeap)>>
               /\ req.prepared.content_type = "application/json" <=>
                      req.method \in {"POST", "PUT", "PATCH"}
               /\ req.prepared.content_type \in {"application/json", None}

SentOnlyIfValidWitness ==
    /\ req.sent
    /\ req.method = "PUT"
    /\ req.prepared.authorization = <<"Bearer", "at0">>
    /\ req.prepared.content_type = "application/json"
    /\ posts.api = 1

\* C24: an API call whose request was sent and answered has returned a
\* Response or raised one of UberIllegalState, ClientError, ServerError,
\* SurgeError and UnknownHttpError, whatever the resource API answered.
CallEndsClassified ==
    \A t \in ApiThreads :
        (pc[t] = "idle" /\ Count(call[t].log, "api_request") = 1) =>
            call[t].outcome \in {"Response", "UberIllegalState",
                                 "ClientError", "ServerError", "SurgeError",
                                 "UnknownHttpError"}

\* The host build_url joins the path to.
SchemedHost ==
    IF StartsWith(req.api_host, URL_SCHEME) THEN req.api_host
    ELSE URL_SCHEME \o req.api_host

\* C25: build_url gives for a host without the scheme what it gives for
\* 'https://' + host; the URL begins with the scheme once; the path is
\* percent-encoded, a leading '~' as '%7E'; and the URL has a '?' followed
\* by the url-encoded params exactly when the params are not empty.
BuildUrlEncodes ==
    req.url # <<>> =>
        /\ StartsWith(req.url, URL_SCHEME)
        /\ ~StartsWith(req.url, URL_SCHEME \o URL_SCHEME)
        /\ ~StartsWith(req.api_host, URL_SCHEME) =>
               req.url = BuildUrl(URL_SCHEME \o req.api_host, req.path,
                                  req.params)
        /\ \A i \in DOMAIN req.url : req.url[i] \notin {"~", " ", "\""}
        /\ req.path[1] = "~" =>
               StartsWith(req.url, SchemedHost \o <<"/", "%", "7", "E">>)
        /\ Count(req.url, "?") =
               IF ~req.params.none /\ req.params.items # <<>> THEN 1 ELSE 0
        /\ (~req.params.none /\ req.params.items # <<>>) =>
               /\ Len(req.url) > Len(UrlEncode(req.params.items))
               /\ SubSeq(req.url,
                         Len(req.url) - Len(UrlEncode(req.params.items)),
                         Len(req.url)) =
                      <<"?">> \o UrlEncode(req.params.items)
               /\ Count(UrlEncode(req.params.items), "=") =
                      Len(req.params.items)

BuildUrlEncodesWitness ==
    /\ req.url # <<>>
    /\ req.path[1] = "~"
    /\ ~StartsWith(req.api_host, URL_SCHEME)
    /\ Len(req.params.items) = 2
    /\ Count(req.url, "?") = 1
    /\ Count(req.url, "&") = 1

\* C26: get_session of the Authorization Code Grant sends the token request
\* only for a callback whose state is the stored state_token and that
\* carries a code and no error, and the request exchanges that code; every
\* other callback raises UberIllegalState with no request sent and no
\* Session made; the state is checked first, so a callback with a wrong or
\* missing state is refused for its state whatever else it carries, and one
\* with the right state and only an error is refused with that error.
PostOnlyAfterVerified ==
    \A t \in SessionCalls :
        /\ call[t].log # <<>> =>
               /\ Carries("state")
               /\ grant.callback.query.state = flow.state_token
               /\ Carries("code")
               /\ ~Carries("error")
               /\ call[t].tokenReq.code = grant.callback.query.code
               /\ call[t].tokenReq.grant_type = "authorization_code"
        /\ call[t].log = <<>> =>
               /\ call[t].outcome = "UberIllegalState"
               /\ pc[t] = "idle"
               /\ call[t].newSess = 0
               /\ call[t].tokenReq = NoTokenRequest
        /\ call[t].newSess # 0 => call[t].log # <<>>
        /\ ~Carries("state") =>
               /\ call[t].log = <<>>
               /\ call[t].errArg = "Missing state"
        /\ (Carries("state")
               /\ grant.callback.query.state # flow.state_token) =>
               /\ call[t].log = <<>>
               /\ call[t].errArg = "CSRF Error"
        /\ (/\ grant.callback.query.state = flow.state_token
            /\ Carries("error")
            /\ ~Carries("code")) =>
               /\ call[t].log = <<>>
               /\ call[t].errArg = grant.callback.query.error

PostOnlyAfterVerifiedWitness ==
    \E t \in SessionCalls :
        /\ grant.callback.query.state = flow.state_token
        /\ Carries("code")
        /\ ~Carries("error")
        /\ call[t].log = <<"token_request">>
        /\ call[t].outcome = "Session"
        /\ posts.token = 1

\* The refresh of the freshness gate of an API call failed: the credential
\* was stale and is of a grant that cannot be refreshed, or the token
\* endpoint answered with a status other than 200.
RefreshFailed(c) ==
    /\ c.kind = "api"
    /\ c.gate = "stale"
    /\ \/ ~Refreshable(credHeap[c.cred])
       \/ c.tokenResp.status \notin {0, STATUS_OK}

\* C27: the step in which the refresh of an API call fails ends the call
\* with the error, sends no resource-API request and changes neither
\* client.session nor a Session or credential object; and the next call on
\* that client finds the credential stale again and repeats the refresh,
\* with the same token request when the grant can be refreshed.
RefreshFailureKeepsSession ==
    [][\A t \in Threads :
          /\ (call'[t] # call[t] /\ RefreshFailed(call'[t])) =>
                 /\ pc'[t] = "idle"
                 /\ call'[t].outcome \notin {"none", "pending", "Response"}
                 /\ ~Refreshable(credHeap[call'[t].cred]) =>
                        call'[t].outcome = "UberIllegalState"
                 /\ Count(call'[t].log, "api_request") = 0
                 /\ Count(call'[t].log, "rebind") = 0
                 /\ posts'.api = posts.api
                 /\ clientSession' = clientSession
                 /\ clientSession'[call'[t].client] = call'[t].sess0
                 /\ sessHeap' = sessHeap
                 /\ credHeap' = credHeap
          /\ (/\ RefreshFailed(call[t])
              /\ calls'[t] = calls[t] + 1
              /\ call'[t].client = call[t].client) =>
                 /\ call'[t].gate = "stale"
                 /\ call'[t].sess0 = call[t].sess0
                 /\ call'[t].cred = call[t].cred
                 /\ Refreshable(credHeap[call[t].cred]) =>
                        /\ posts'.token = posts.token + 1
                        /\ call'[t].tokenReq = call[t].tokenReq
                        /\ pc'[t] = "token_wait"
                 /\ ~Refreshable(credHeap[call[t].cred]) =>
                        /\ posts'.token = posts.token
                        /\ call'[t].outcome = "UberIllegalState"]_vars

\* C27 witness: two calls, two token requests, no token issued: the second
\* call repeated the refresh that failed in the first, and failed too.
RefreshFailureKeepsSessionWitness ==
    \E t \in Threads :
        /\ calls[t] = 2
        /\ RefreshFailed(call[t])
        /\ call[t].tokenResp.status = 401
        /\ posts.token = 2
        /\ issued = 0
        /\ posts.api = 0
        /\ clientSession[call[t].client] = call[t].sess0

\* The session of the client holds an Implicit credential that is stale.
Blocked(c) ==
    /\ clientSession[c] # 0
    /\ sessHeap[clientSession[c]].token_type = OAUTH_TOKEN_TYPE
    /\ credHeap[sessHeap[clientSession[c]].oauth2credential].grant_type =
           IMPLICIT_GRANT
    /\ IsStale(credHeap[sessHeap[clientSession[c]].oauth2credential], now)

----------------------------------------------------------------------------
(* The concurrent specification: two threads make API calls on one client  *)
(* whose session holds a stale credential of a grant that can be           *)
(* refreshed.  A thread can be suspended wherever it waits for a response, *)
(* and between the rebind of client.session and the building of its        *)
(* request.  The two threads make MaxCalls calls between them.             *)

\* The answers of the resource API the concurrent calls are followed with.
ConcurrentResponses ==
    {r \in ApiResponses :
        r.rate /\ r.json /\ r.status \in {STATUS_OK, 401}
               /\ r.shape \in {"other", "error"}}

InitConcurrent ==
    /\ InitCommon
    /\ \E g \in {AUTHORIZATION_CODE_GRANT, CLIENT_CREDENTIAL_GRANT} :
           credHeap = <<InitialCredential(g, 1)>>
    /\ sessHeap = <<SessionInit(None, 1).obj>>
    /\ clientSession = [c \in Clients |-> 1]

NextConcurrent ==
    \/ \E t \in Threads :
           /\ calls[1] + calls[2] < MaxCalls
           /\ ApiCall(t, 1, "GET")
    \/ \E t \in Threads, r \in RefreshResponses(issued + 1) :
           ReceiveToken(t, r)
    \/ \E t \in Threads : Dispatch(t)
    \/ \E t \in Threads, r \in ConcurrentResponses : ReceiveResponse(t, r)

SpecConcurrent == InitConcurrent /\ [][NextConcurrent]_vars

\* The calls whose gate found the credential stale and sent a token
\* request.
Refreshing == {t \in ApiThreads : call[t].log # <<>> /\ call[t].gate = "stale"}

\* C29: nothing keeps a second call from refreshing while a first one does.
\* Calls whose gates read the same credential send the same token request,
\* with the refresh token of that credential, however many of them are
\* waiting; and every rebind sets client.session to the Session its own
\* refresh returned, so client.session is the result of the last rebind.
UnsynchronizedRefresh ==
    /\ [](\A t, u \in Refreshing :
              call[t].cred = call[u].cred =>
                  /\ call[t].tokenReq = call[u].tokenReq
                  /\ call[t].tokenReq.grant_type \in
                         {REFRESH_TOKEN, CLIENT_CREDENTIAL_GRANT}
                  /\ call[t].tokenReq.grant_type = REFRESH_TOKEN =>
                         call[t].tokenReq.refresh_token =
                             credHeap[call[t].cred].refresh_token
                  /\ call[t].tokenReq.grant_type = CLIENT_CREDENTIAL_GRANT =>
                         call[t].tokenReq.refresh_token = None)
    /\ [](posts.token >= Cardinality({t \in Threads : pc[t] = "token_wait"}))
    /\ [][\A t \in Threads :
              Count(call'[t].log, "rebind") > Count(call[t].log, "rebind")
                  => /\ call'[t].newSess \notin DOMAIN sessHeap
                     /\ clientSession'[call'[t].client] = call'[t].newSess
                     /\ \A u \in Threads \ {t} : call'[u] = call[u]]_vars

\* C29 witness: both calls found the credential stale and sent the same
\* token request; both refreshes came back, the one of thread 1 last, and
\* client.session is the Session of thread 1, not that of thread 2.
UnsynchronizedRefreshWitness ==
    /\ Refreshing = {1, 2}
    /\ call[1].cred = call[2].cred
    /\ call[1].tokenReq = call[2].tokenReq
    /\ call[1].tokenReq.grant_type = REFRESH_TOKEN
    /\ call[1].tokenReq.refresh_token = credHeap[1].refresh_token
    /\ call[1].cred = 1
    /\ posts.token = 2
    /\ call[1].newSess # 0
    /\ call[2].newSess # 0
    /\ call[1].newSess > call[2].newSess
    /\ clientSession[1] = call[1].newSess

\* C30: no request reaches the resource API with the access token of the
\* stale credential the client started with: every request sent carries a
\* token the token endpoint issued to one of the refreshes.
NoStaleDispatch ==
    \A t \in ApiThreads :
        call[t].authorization # <<>> =>
            /\ call[t].authorization[1] = OAUTH_TOKEN_TYPE
            /\ call[t].authorization[2] # credHeap[1].access_token
            /\ \E i \in 1..issued :
                   call[t].authorization[2] = AccessTokenPool[i]
            /\ call[t].sessUsed # 1
            /\ call[t].gate = "stale" =>
                   call[t].tokenResp.status = STATUS_OK

\* C30 witness: both calls refreshed; thread 1 was suspended after its
\* rebind, thread 2 rebound client.session, and the request of thread 1
\* went out with the token of thread 2's refresh.
NoStaleDispatchWitness ==
    /\ Refreshing = {1, 2}
    /\ call[1].tokenResp.status = STATUS_OK
    /\ call[2].tokenResp.status = STATUS_OK
    /\ call[1].tokenResp.expires_in = 3000
    /\ call[2].tokenResp.expires_in = 3000
    /\ call[1].authorization # <<>>
    /\ call[1].authorization[2] = call[2].tokenResp.access_token
    /\ call[1].authorization[2] # call[1].tokenResp.access_token

====
